---- MODULE Spec2Model ----
(***************************************************************************)
(* A model of the package builder of src/lib/package.js (PackageBuilder)   *)
(* and of its helpers in src/lib/tools.js.                                 *)
(*                                                                         *)
(* Strings of the program (filter strings, relative paths, the sources of  *)
(* regular expressions) are sequences of one-character strings.            *)
(***************************************************************************)
EXTENDS Integers, Sequences, FiniteSets, TLC

(***************************************************************************)
(* Characters.  Code gives the character code of every character the model *)
(* uses (the order the ranges of a character class are read in).           *)
(***************************************************************************)
Code ==
    [ c \in { "$", "*", "-", ".", "/", "0", "1", "9", "A", "B", "Z", "[", "\\", "]", "^",
              "_", "a", "b", "c", "e", "h", "i", "j", "l", "m", "s", "t", "x", "z" } |->
        CASE c = "$" -> 36  [] c = "*" -> 42  [] c = "-" -> 45  [] c = "." -> 46
          [] c = "/" -> 47  [] c = "0" -> 48  [] c = "1" -> 49  [] c = "9" -> 57
          [] c = "A" -> 65  [] c = "B" -> 66  [] c = "Z" -> 90  [] c = "[" -> 91
          [] c = "\\" -> 92 [] c = "]" -> 93  [] c = "^" -> 94  [] c = "_" -> 95
          [] c = "a" -> 97  [] c = "b" -> 98  [] c = "c" -> 99
          [] c = "e" -> 101 [] c = "h" -> 104 [] c = "i" -> 105 [] c = "j" -> 106
          [] c = "l" -> 108 [] c = "m" -> 109 [] c = "s" -> 115 [] c = "t" -> 116
          [] c = "x" -> 120 [] c = "z" -> 122 ]

Chars == DOMAIN Code

\* Canonicalize under the flag 'i': a letter and its other case are one character.
Canon(c) ==
    CASE c = "a" -> "A" [] c = "b" -> "B" [] c = "z" -> "Z" [] OTHER -> c

(***************************************************************************)
(* String.prototype.replace with a string pattern: the FIRST occurrence of *)
(* pat in s is replaced, the others are left as they are.                  *)
(***************************************************************************)
IndexOf(s, pat) ==
    LET at == { i \in 1..(Len(s) - Len(pat) + 1) : SubSeq(s, i, i + Len(pat) - 1) = pat }
    IN  IF at = {} THEN 0 ELSE CHOOSE i \in at : \A j \in at : i <= j

ReplaceFirst(s, pat, rep) ==
    LET i == IndexOf(s, pat)
    IN  IF i = 0 THEN s
        ELSE SubSeq(s, 1, i - 1) \o rep \o SubSeq(s, i + Len(pat), Len(s))

\* The two replacement texts of pathToRegExpFilter, as the string literals
\* evaluate: '[a-z_\-\s0-9\.\\]*' is [a-z_-s0-9.\]* and '[a-z_\-\s0-9\.]*' is
\* [a-z_-s0-9.]* (\- \s \. are the characters - s . and \\ is one backslash).
DoubleStarText ==
    << "[", "a", "-", "z", "_", "-", "s", "0", "-", "9", ".", "\\", "]", "*" >>

StarText ==
    << "[", "a", "-", "z", "_", "-", "s", "0", "-", "9", ".", "]", "*" >>

\* The source of the regular expression pathToRegExpFilter builds for str.
RegExpSource(str) ==
    << "^" >>
    \o ReplaceFirst(ReplaceFirst(str, << "*", "*" >>, DoubleStarText), << "*" >>, StarText)
    \o << "$" >>

(***************************************************************************)
(* new RegExp(source, 'i'): the pattern grammar for the characters above.  *)
(* An item is an atom (a literal, a dot, or a character class) with or      *)
(* without a star after it.                                                *)
(***************************************************************************)
\* Index of the bracket that closes the class whose first member is at j; 0 if none.
RECURSIVE ClassEnd(_, _)
ClassEnd(src, j) ==
    IF j > Len(src) THEN 0
    ELSE IF src[j] = "\\" THEN ClassEnd(src, j + 2)
    ELSE IF src[j] = "]" THEN j
    ELSE ClassEnd(src, j + 1)

\* The members of a class, escapes resolved: [c |-> character, esc |-> escaped].
RECURSIVE ClassAtoms(_, _, _)
ClassAtoms(src, j, e) ==
    IF j >= e THEN << >>
    ELSE IF src[j] = "\\"
         THEN << [c |-> src[j + 1], esc |-> TRUE] >> \o ClassAtoms(src, j + 2, e)
         ELSE << [c |-> src[j], esc |-> FALSE] >> \o ClassAtoms(src, j + 1, e)

IsRangeAt(atoms, k) ==
    k + 2 <= Len(atoms) /\ atoms[k + 1].c = "-" /\ ~atoms[k + 1].esc

\* FALSE when a range of the class is out of order (a SyntaxError).
RECURSIVE ClassOk(_, _)
ClassOk(atoms, k) ==
    IF k > Len(atoms) THEN TRUE
    ELSE IF IsRangeAt(atoms, k)
         THEN Code[atoms[k].c] <= Code[atoms[k + 2].c] /\ ClassOk(atoms, k + 3)
         ELSE ClassOk(atoms, k + 1)

\* The characters a class holds.
RECURSIVE ClassSet(_, _)
ClassSet(atoms, k) ==
    IF k > Len(atoms) THEN {}
    ELSE IF IsRangeAt(atoms, k)
         THEN { c \in Chars : Code[atoms[k].c] <= Code[c] /\ Code[c] <= Code[atoms[k + 2].c] }
              \cup ClassSet(atoms, k + 3)
         ELSE { atoms[k].c } \cup ClassSet(atoms, k + 1)

\* The items of src from position i on, or << "SyntaxError" >> as the one item.
SyntaxError == << [kind |-> "SyntaxError"] >>

RECURSIVE ParseItems(_, _)
ParseItems(src, i) ==
    IF i > Len(src) THEN << >>
    ELSE
      LET c == src[i]
          e == IF c = "[" THEN ClassEnd(src, i + 1) ELSE 0
          atoms == IF e > 0 THEN ClassAtoms(src, i + 1, e) ELSE << >>
          bad == \/ c = "*"
                 \/ (c = "[" /\ (e = 0 \/ ~ClassOk(atoms, 1)))
                 \/ (c = "\\" /\ i = Len(src))
          last == IF c = "[" THEN e ELSE IF c = "\\" THEN i + 1 ELSE i
          star == last < Len(src) /\ src[last + 1] = "*"
          atom == CASE c = "[" -> [kind |-> "class", set |-> ClassSet(atoms, 1), star |-> star]
                    [] c = "." -> [kind |-> "any", set |-> {}, star |-> star]
                    [] c = "^" -> [kind |-> "bol", set |-> {}, star |-> star]
                    [] c = "$" -> [kind |-> "eol", set |-> {}, star |-> star]
                    [] c = "\\" -> [kind |-> "char", set |-> { src[i + 1] }, star |-> star]
                    [] OTHER -> [kind |-> "char", set |-> { c }, star |-> star]
          rest == IF bad THEN << >> ELSE ParseItems(src, IF star THEN last + 2 ELSE last + 1)
      IN  IF bad \/ rest = SyntaxError \/ (star /\ c \in { "^", "$" }) THEN SyntaxError
          ELSE << atom >> \o rest

\* pathToRegExpFilter: the compiled filter is the source of the expression; a
\* source the pattern grammar rejects makes new RegExp throw.
RegExpValid(source) == ParseItems(source, 1) # SyntaxError

pathToRegExpFilter(str) == RegExpSource(str)

\* One character against one atom, letters compared without case.
AtomMatches(it, ch) ==
    CASE it.kind = "any" -> TRUE
      [] OTHER -> \E m \in it.set : Canon(m) = Canon(ch)

\* The items from k on match the path from p on, up to its end.
RECURSIVE MatchFrom(_, _, _, _)
MatchFrom(items, k, path, p) ==
    IF k > Len(items) THEN TRUE
    ELSE
      LET it == items[k]
      IN  CASE it.kind = "bol" -> p = 1 /\ MatchFrom(items, k + 1, path, p)
            [] it.kind = "eol" -> p = Len(path) + 1 /\ MatchFrom(items, k + 1, path, p)
            [] it.star ->
                 \/ MatchFrom(items, k + 1, path, p)
                 \/ /\ p <= Len(path)
                    /\ AtomMatches(it, path[p])
                    /\ MatchFrom(items, k, path, p + 1)
            [] OTHER ->
                 /\ p <= Len(path)
                 /\ AtomMatches(it, path[p])
                 /\ MatchFrom(items, k + 1, path, p + 1)

\* path.match( filter ): the sources the model builds start with ^, so a match
\* can only start at the first character.
RegExpMatch(source, path) ==
    LET items == ParseItems(source, 1)
    IN  items # SyntaxError /\ MatchFrom(items, 1, path, 1)


(***************************************************************************)
(* The package.  One PackageBuilder instance, the tree its Walker walks,   *)
(* the adapters its rules and callers name.                                *)
(***************************************************************************)
\* Bounds of the model: the promises load() and build() may create.
MaxLoads == 2
MaxBuilds == 2

\* The files under package.path, as relative paths, in the order the Walker
\* emits them: lib/b.css, lib/c.js.
TreeFiles ==
    << << "l", "i", "b", "/", "b", ".", "c", "s", "s" >>,
       << "l", "i", "b", "/", "c", ".", "j", "s" >> >>

\* The package whose root holds a.js and b.css, and no other file.
TreeAB == << << "a", ".", "j", "s" >>, << "b", ".", "c", "s", "s" >> >>

\* A package with hidden files at two depths (.h, lib/.h) and files whose
\* names try the wildcards: lib/c.js, acss, m-b.css, A.css, a/b, t.less, s/t.less.
TreeDeep ==
    << << ".", "h" >>, << "l", "i", "b", "/", ".", "h" >>, << "l", "i", "b", "/", "c", ".", "j", "s" >>,
       << "a", "c", "s", "s" >>, << "m", "-", "b", ".", "c", "s", "s" >>, << "A", ".", "c", "s", "s" >>,
       << "a", "/", "b" >>, << "t", ".", "l", "e", "s", "s" >>, << "s", "/", "t", ".", "l", "e", "s", "s" >> >>

\* A file is hidden when its name, the part after the last separator, starts
\* with a dot.
RECURSIVE BaseName(_)
BaseName(relativePath) ==
    IF \E i \in 1..Len(relativePath) : relativePath[i] = "/"
    THEN BaseName(Tail(relativePath))
    ELSE relativePath

IsHidden(relativePath) == BaseName(relativePath)[1] = "."

\* Filter strings of the options: lib/*.css, lib/*, lib/*.js, and the filter
\* setIgnore adds for hidden files, .**
FilterCss == << "l", "i", "b", "/", "*", ".", "c", "s", "s" >>
FilterLib == << "l", "i", "b", "/", "*" >>
FilterJs == << "l", "i", "b", "/", "*", ".", "j", "s" >>
HiddenFilter == << ".", "*", "*" >>


\* More filter strings: *.css, *, a*, *.less, **.less, */*
StarCss == << "*", ".", "c", "s", "s" >>
Star == << "*" >>
AStar == << "a", "*" >>
StarLess == << "*", ".", "l", "e", "s", "s" >>
DoubleStarLess == << "*", "*", ".", "l", "e", "s", "s" >>
StarSlashStar == << "*", "/", "*" >>

FilterStrings ==
    { FilterCss, FilterLib, FilterJs, HiddenFilter,
      StarCss, Star, AStar, StarLess, DoubleStarLess, StarSlashStar }

Paths ==
    { TreeFiles[i] : i \in 1..Len(TreeFiles) }
    \cup { TreeAB[i] : i \in 1..Len(TreeAB) }
    \cup { TreeDeep[i] : i \in 1..Len(TreeDeep) }

\* path.match( filter ) for the filters and the paths of the model, computed once.
Matches ==
    [ source \in { pathToRegExpFilter(f) : f \in FilterStrings },
      path \in Paths |-> RegExpMatch(source, path) ]

\* tools.fileMatchesAgainstRegExpFiltersArray
fileMatchesAgainstRegExpFiltersArray(path, filters) ==
    \E i \in 1..Len(filters) : Matches[filters[i], path]

AdapterNames == { "js", "css", "less" }

\* The adapters the calls of bindAdapter and unbindAdapter name.
AdapterInputs == { "js" }

\* The value undefined, and the stream an adapter returns: the streams of the
\* model are the sequences of the adapters a stream has been through, undefined
\* (what fs.readFile returns when it is given no callback) being the empty one.
Undefined == << >>
buildStream(adapter, stream) == Append(stream, adapter)

VARIABLES
    input,        \* this.input: file -> content
    output,       \* this.output: file -> content
    argument,     \* the object the caller gave to the last setDependencies, as the call left it
    name,         \* this.name
    version,      \* this.version
    description,  \* this.description, the empty string when it is not set
    environment,  \* this.environment
    peer,         \* a second package constructed from the same path: what it holds
    manifestRefs, \* the packages whose dependencies.required is the object npmPackage.dependencies
    tree,         \* the directory at package.path: its files, its manifest, its ignore files
    options,      \* the construction options: the bootstrap flags, ignore, includeOnly, dependencies
    dependencies, \* this.dependencies: rule -> dependency name -> version
    ignore,       \* this.ignore: the compiled ignore filters
    includeOnly,  \* this.includeOnly: false, or the compiled filters
    pipelining,   \* this.pipelining: the rules, in declaration order
    adapters,     \* this.adapters: the names bound
    contents,     \* this.contents: the content records
    loads,        \* the promises load() created, each with its Walker
    _loaded,      \* this._loaded: index in loads, 0 when unset
    builds,       \* the promises build() created, each with its run
    _build,       \* this._build: index in builds, 0 when unset
    bootstrap,    \* the load().then callback of initialize
    ret           \* what the last call of a method returned or threw

identity == << name, version, description, environment >>
shared == << peer, manifestRefs >>
io == << input, output >>

vars ==
    << input, output, argument, name, version, description, environment, peer, manifestRefs,
       tree, options, dependencies, ignore, includeOnly, pipelining, adapters, contents, loads,
       _loaded, builds, _build, bootstrap, ret >>

Ret(op, arg, out, id) == [op |-> op, arg |-> arg, out |-> out, id |-> id]

(***************************************************************************)
(* setIgnore, setIncludeOnly, setAdapters, addPipelining                    *)
(***************************************************************************)
RECURSIVE MapFilters(_)
MapFilters(strs) ==
    IF strs = << >> THEN << >>
    ELSE << pathToRegExpFilter(Head(strs)) >> \o MapFilters(Tail(strs))

AllValid(filters) == \A i \in 1..Len(filters) : RegExpValid(filters[i])

\* A source that gives no list: an argument or option not given, a manifest
\* without the key, a file that cannot be read.
Absent == << << "undefined" >> >>

\* The empty string, which a blank line of an ignore file splits into.
Blank == << >>

\* Util.Array.filter( list, !! val ): the entries that are not the empty string.
Truthy(list) == SelectSeq(list, LAMBDA val : val # Blank)

\* Lines 592-622: the || chain of setIgnore.  Every list is truthy, the empty
\* one too, and a file that can be read always splits into a list: the first
\* source that is there is taken.
FirstGiven(sources) ==
    LET given == { i \in 1..Len(sources) : sources[i] # Absent }
    IN  IF given = {} THEN << >>
        ELSE sources[CHOOSE i \in given : \A j \in given : i <= j]

IgnoreSources(arg, opts, dir) ==
    << arg, opts.ignore, dir.npmPackage.ignore, dir.rhignore, dir.npmignore, dir.gitignore >>

\* setIgnore: the list of the first source given, its empty strings dropped,
\* the hidden-file filter pushed after it, compiled.
setIgnore(list) == MapFilters(Append(Truthy(list), HiddenFilter))

\* setIncludeOnly with an empty list taken as false, as a test of its length
\* would do.
setIncludeOnlyEmptyIsFalse(list) ==
    IF list = Absent \/ Truthy(list) = << >> THEN [set |-> FALSE, filters |-> << >>]
    ELSE [set |-> TRUE, filters |-> MapFilters(Truthy(list))]

\* setIncludeOnly: false stays false; a list, an empty one too, has its empty
\* strings dropped and is compiled (an empty array is truthy).
NoIncludeOnly == [set |-> FALSE, filters |-> << >>]
setIncludeOnly(list) ==
    IF list = Absent THEN NoIncludeOnly
    ELSE [set |-> TRUE, filters |-> MapFilters(Truthy(list))]

\* Lines 655-658: the argument, options.includeOnly, the manifest's, else false.
IncludeOnlySources(arg, opts, dir) == << arg, opts.includeOnly, dir.npmPackage.includeOnly >>

IncludeOnlyGiven(sources) ==
    IF \A i \in 1..Len(sources) : sources[i] = Absent THEN Absent ELSE FirstGiven(sources)

\* resolveAdapter: a reserved name resolves to the adapter of that name; an
\* object without a name does not resolve.
Nameless == "nameless"
resolveAdapterThrows(adapter) == adapter \notin AdapterNames

\* The values a caller hands over that resolve to no adapter: the object
\* without a name (Nameless), null, and a number.  typeof null is 'object', so
\* line 713 reads null.name, which throws; the others reach line 724.
Null == "null"
Number == "number"
InvalidAdapter == "TypeError: invalid adapter provided"
NullRead == "TypeError: Cannot read property 'name' of null"
resolveAdapterError(adapter) == IF adapter = Null THEN NullRead ELSE InvalidAdapter

\* hasAdapter compares the bound adapter with the string 'undefined'.
hasAdapter(adapter) == FALSE

\* The callback addPipelining maps over the adapters given uses this.resolveAdapter
\* with a this that is not the package, and package.bind, which no method defines:
\* it throws on the first adapter, so only an empty list gets through.
addPipeliningThrows(filter, chain) ==
    \/ ~RegExpValid(pathToRegExpFilter(filter))
    \/ chain # << >>

Rule(filter, chain) == [filter |-> pathToRegExpFilter(filter), adapters |-> chain]

(***************************************************************************)
(* setName, setVersion, setDescription, setEnvironment, setAdapters        *)
(***************************************************************************)
\* FirstTruthy that prefers the later sources.
LastTruthy(values) ==
    LET given == { i \in 1..Len(values) : values[i] # "" }
    IN  IF given = {} THEN ""
        ELSE values[CHOOSE i \in given : \A j \in given : i >= j]

\* The || chains of the setters: the first value that is truthy, undefined
\* when there is none.  The empty string stands for undefined too, both being
\* falsy.
FirstTruthy(values) ==
    LET given == { i \in 1..Len(values) : values[i] # "" }
    IN  IF given = {} THEN ""
        ELSE values[CHOOSE i \in given : \A j \in given : i <= j]

\* Lines 534-537, 554-557, 579-582 and 795-798: the argument, the option,
\* the manifest's key (this.npmPackage is false when there is no package.json).
NameGiven(arg, opts, dir) == FirstTruthy(<< arg, opts.name, dir.npmPackage.name >>)
VersionGiven(arg, opts, dir) == FirstTruthy(<< arg, opts.version, dir.npmPackage.version >>)
DescriptionGiven(arg, opts, dir) ==
    FirstTruthy(<< arg, opts.description, dir.npmPackage.description >>)
EnvironmentGiven(arg, opts, dir) ==
    FirstTruthy(<< arg, opts.environment, dir.npmPackage.environment >>)

\* The test of setName and setVersion that lets every value through.
NeverInvalid(given) == FALSE

\* Lines 539 and 559: ! name, ! version.
Invalid(given) == given = ""

\* setName and setVersion throw before they assign when nothing is given.
NameError == "TypeError: please provide a valid package.name"
VersionError == "TypeError: please provide a valid package.version"

\* setDescription that clears the description in production.
setDescriptionCleared(env, current, given) == IF env = "production" THEN "" ELSE given

\* setDescription, lines 572-586: in production it returns before it assigns.
setDescription(env, current, given) == IF env = "production" THEN current ELSE given

\* setAdapters, lines 686-709: the option, the manifest's key, else [ 'js' ];
\* this.adapters = {} and each adapter bound.
AbsentAdapters == << "undefined" >>
AdaptersGiven(opts, dir) ==
    IF opts.adapters # AbsentAdapters THEN opts.adapters
    ELSE IF dir.npmPackage.adapters # AbsentAdapters THEN dir.npmPackage.adapters
    ELSE << "js" >>

setAdapters(list) ==
    [throws |-> \E i \in 1..Len(list) : resolveAdapterThrows(list[i]),
     adapters |-> { list[i] : i \in 1..Len(list) }]

\* setPipelining, lines 746-765: the option, the manifest's key, the Rhfile's,
\* else {}.  A table is the object's filters in the order of its keys.
AbsentTable == << [filter |-> << "undefined" >>, adapters |-> << >>] >>
PipeliningGiven(opts, dir) ==
    IF opts.pipelining # AbsentTable THEN opts.pipelining
    ELSE IF dir.npmPackage.pipelining # AbsentTable THEN dir.npmPackage.pipelining
    ELSE IF dir.configFile.pipelining # AbsentTable THEN dir.configFile.pipelining
    ELSE << >>

(***************************************************************************)
(* setDependencies, addDependency, removeDependency                        *)
(***************************************************************************)
\* Dependency names and rule keys, as strings of characters.
LeftPad == << "l", "e", "f", "t", "-", "p", "a", "d" >>
Lodash == << "l", "o", "d", "a", "s", "h" >>
Required == << "r", "e", "q", "u", "i", "r", "e", "d" >>
Optional == << "o", "p", "t", "i", "o", "n", "a", "l" >>
EnvRequiredDev == << "e", "n", "v", "i", "r", "o", "n", "m", "e", "n", "t", "-", "r", "e", "q", "u", "i", "r", "e", "d", "-", "d", "e", "v" >>
EnvRequiredEmpty == << "e", "n", "v", "i", "r", "o", "n", "m", "e", "n", "t", "-", "r", "e", "q", "u", "i", "r", "e", "d", "-" >>

\* The flag 'i' of Package.RegExp.DependencyRule: letters compare in lower case.
ToLower(c) ==
    CASE c = "A" -> "a" [] c = "B" -> "b" [] c = "C" -> "c" [] c = "D" -> "d"
      [] c = "E" -> "e" [] c = "F" -> "f" [] c = "G" -> "g" [] c = "H" -> "h"
      [] c = "I" -> "i" [] c = "J" -> "j" [] c = "K" -> "k" [] c = "L" -> "l"
      [] c = "M" -> "m" [] c = "N" -> "n" [] c = "O" -> "o" [] c = "P" -> "p"
      [] c = "Q" -> "q" [] c = "R" -> "r" [] c = "S" -> "s" [] c = "T" -> "t"
      [] c = "U" -> "u" [] c = "V" -> "v" [] c = "W" -> "w" [] c = "X" -> "x"
      [] c = "Y" -> "y" [] c = "Z" -> "z"
      [] OTHER -> c

LowerCase(str) == [ i \in 1..Len(str) |-> ToLower(str[i]) ]

StartsWith(str, prefix) ==
    Len(str) >= Len(prefix) /\ SubSeq(str, 1, Len(prefix)) = prefix

\* key.match( Package.RegExp.DependencyRule ), line 48:
\* /^(required|optional|(environment-(required|optional)-.*))$/i
IsDependencyRule(key) ==
    LET k == LowerCase(key)
    IN  \/ k = Required
        \/ k = Optional
        \/ StartsWith(k, << "e", "n", "v", "i", "r", "o", "n", "m", "e", "n", "t", "-", "r", "e", "q", "u", "i", "r", "e", "d", "-" >>)
        \/ StartsWith(k, << "e", "n", "v", "i", "r", "o", "n", "m", "e", "n", "t", "-", "o", "p", "t", "i", "o", "n", "a", "l", "-" >>)

\* The values of the model: a string, or an object whose own keys map to
\* strings.  A value is a record of the same three fields whatever its kind.
EmptyMap == [ k \in { } |-> "" ]
StringValue(str) == [kind |-> "string", s |-> str, m |-> EmptyMap]
ObjectValue(map) == [kind |-> "object", s |-> "", m |-> map]
Falsy(value) == value.kind = "string" /\ value.s = ""

\* The dependencies a caller, the options or the manifest give: nothing, an
\* array of names, or an object whose keys map to values.
AbsentDeps == [shape |-> "absent", list |-> << >>, obj |-> << >>]
ArrayDeps(list) == [shape |-> "array", list |-> list, obj |-> << >>]
ObjectDeps(obj) == [shape |-> "object", list |-> << >>, obj |-> obj]

\* A flat object: its names map to version strings.
Flat(map) == ObjectDeps([ dep \in DOMAIN map |-> StringValue(map[dep]) ])

\* Lines 807-810: the argument, options.dependencies, the manifest's, else {}.
DependenciesGiven(arg, opts, dir) ==
    IF arg.shape # "absent" THEN arg
    ELSE IF opts.dependencies.shape # "absent" THEN opts.dependencies
    ELSE IF dir.npmPackage.dependencies.shape # "absent" THEN dir.npmPackage.dependencies
    ELSE ObjectDeps(<< >>)

\* Lines 807-838: the source is the manifest's object and none of its keys is a
\* rule, so line 837 makes that very object the value of required.  (require
\* caches package.json: every package of the path holds the same npmPackage.)
RequiredIsManifest(arg, opts, dir) ==
    /\ arg.shape = "absent"
    /\ opts.dependencies.shape = "absent"
    /\ dir.npmPackage.dependencies.shape = "object"
    /\ \A key \in DOMAIN dir.npmPackage.dependencies.obj : ~IsDependencyRule(key)

\* WrapFlat that takes an object for rule-keyed only when all its keys are rules.
WrapUnlessAllRules(obj) ==
    IF DOMAIN obj # { } /\ \A key \in DOMAIN obj : IsDependencyRule(key)
    THEN obj
    ELSE [ rule \in { Required } |-> ObjectValue([ dep \in DOMAIN obj |-> obj[dep].s ]) ]

\* Lines 815-847: an object none of whose keys is a rule is wrapped as the
\* value of required (the object itself: its entries are strings); an object
\* with a key that is a rule is left as it is.
WrapFlat(obj) ==
    IF \E key \in DOMAIN obj : IsDependencyRule(key)
    THEN obj
    ELSE [ rule \in { Required } |-> ObjectValue([ dep \in DOMAIN obj |-> obj[dep].s ]) ]

\* Line 862.
Latest == "latest"

\* An array entry that is a number, and Util.isnt.String of an entry.
NumberEntry == << "number" >>
IsntString(entry) == entry = NumberEntry

\* Lines 858-860: an entry of the array that is no string.
NonStringEntry(given) ==
    given.shape = "array" /\ \E i \in 1..Len(given.list) : IsntString(given.list[i])

\* Lines 852-867: an array of names becomes required, each name at latest.
\* (Util.is.Object, of findhit-util, is taken to be false of an array.)
ExpandArray(list) ==
    [ rule \in { Required } |->
        ObjectValue([ dep \in { list[i] : i \in 1..Len(list) } |-> Latest ]) ]

\* Lines 870-881: every key of the object must be a rule.
InvalidRule(graph) == \E rule \in DOMAIN graph : ~IsDependencyRule(rule)

\* WithDefault that adds nothing.
WithoutDefault(graph, rule) == graph

\* Lines 889-890: this.dependencies[ rule ] = this.dependencies[ rule ] || {}
WithDefault(graph, rule) ==
    IF rule \in DOMAIN graph /\ ~Falsy(graph[rule]) THEN graph
    ELSE [ r \in DOMAIN graph \cup { rule } |->
             IF r = rule THEN ObjectValue(EmptyMap) ELSE graph[r] ]

\* setDependencies: what it throws, else the graph it assigns; and the object
\* given as the call leaves it.  An object keyed by rules is itself assigned
\* to this.dependencies (line 886), so lines 889-890 write into it; a flat
\* object and an array are read only.
setDependencies(given) ==
    LET graph == IF given.shape = "array" THEN ExpandArray(given.list) ELSE WrapFlat(given.obj)
        assigned == WithDefault(WithDefault(graph, Required), Optional)
    IN  IF NonStringEntry(given) \/ InvalidRule(graph)
        THEN [throws |-> TRUE, graph |-> << >>, given |-> given]
        ELSE [throws |-> FALSE, graph |-> assigned,
              given |-> IF given.shape = "object" /\ graph = given.obj
                        THEN ObjectDeps(assigned) ELSE given]

(***************************************************************************)
(* load(): the handler of the Walker's file event                          *)
(***************************************************************************)
\* Included with the ignore filters consulted in includeOnly mode too.
IncludedUnlessIgnored(relativePath) ==
    /\ ~fileMatchesAgainstRegExpFiltersArray(relativePath, ignore)
    /\ includeOnly.set => fileMatchesAgainstRegExpFiltersArray(relativePath, includeOnly.filters)

\* Lines 463-481: the filter decision.
Included(relativePath) ==
    IF includeOnly.set
    THEN fileMatchesAgainstRegExpFiltersArray(relativePath, includeOnly.filters)
    ELSE ~fileMatchesAgainstRegExpFiltersArray(relativePath, ignore)

\* Line 497: the condition is the rule's filter, a RegExp object, which is truthy
\* whatever the path is.
RuleTaken(rule, relativePath) == TRUE

\* Lines 494-501: the adapters of the first rule taken, else undefined.  A record
\* holds the array of the rule itself: rule is the rule's index (0 for undefined).
NoChain == [rule |-> 0, chain |-> << >>]

ChainFor(relativePath) ==
    LET taken == { i \in 1..Len(pipelining) : RuleTaken(pipelining[i], relativePath) }
    IN  IF taken = {} THEN NoChain
        ELSE LET i == CHOOSE i \in taken : \A j \in taken : i <= j
             IN  [rule |-> i, chain |-> pipelining[i].adapters]

\* Lines 484-492.  walk is not a field of the program's record: it names the
\* load whose Walker emitted the file.
Content(relativePath, w) ==
    [relative |-> relativePath, stream |-> Undefined,
     adapters |-> ChainFor(relativePath), walk |-> w]

(***************************************************************************)
(* build(): the stages of the promise chain                                *)
(***************************************************************************)
\* BuildFails without the validation of the adapters.
BuildFailsContentsOnly == contents = << >>

\* Lines 913-920: the two validations, made before anything else.
BuildFails == contents = << >> \/ adapters = {}

\* BuildCached with the flag read the wrong way round.
BuildCachedInverted(forceRebuild) == _build # 0 /\ forceRebuild

\* Line 923.
BuildCached(forceRebuild) == _build # 0 /\ ~forceRebuild

\* RunChain with every adapter given the stream read from the file, not the
\* stream the adapter before it returned.
RunChainUnthreaded(stream, chain) ==
    IF chain = << >> THEN stream ELSE buildStream(chain[Len(chain)], stream)

\* Lines 945-948: the stream through the adapters of the chain, in index order.
RECURSIVE RunChain(_, _)
RunChain(stream, chain) ==
    IF chain = << >> THEN stream
    ELSE RunChain(buildStream(Head(chain), stream), Tail(chain))

\* Lines 940-950 for one clone.
Processed(content) ==
    [content EXCEPT !.stream = RunChain(Undefined, content.adapters.chain)]

\* The buildStream calls the mapper makes for record r of run b, up to its
\* upto-th adapter, each with the stream it is given.
Calls(b, r, chain, upto) ==
    [ i \in 1..upto |->
        [run |-> b, rec |-> r, adapter |-> chain[i],
         input |-> RunChain(Undefined, SubSeq(chain, 1, i - 1))] ]

RECURSIVE CallsOfRecords(_, _, _)
CallsOfRecords(b, clones, k) ==
    IF k = 0 THEN << >>
    ELSE CallsOfRecords(b, clones, k - 1)
         \o Calls(b, k, clones[k].adapters.chain, Len(clones[k].adapters.chain))

\* ContentsAfterMap with the mapper working on the records of package.contents
\* themselves, as it would without the clone of line 932.
ContentsAfterMapAliased(b) ==
    [ i \in 1..Len(contents) |->
        IF i <= Len(builds[b].clones) THEN Processed(contents[i]) ELSE contents[i] ]

\* Lines 931-933 and 940-947: the mapper assigns content.stream on the objects
\* Util.extend( {}, content ) made, so package.contents is what it was.
ContentsAfterMap(b) == contents

\* A promise of build() and its run: the clones it works on, the buildStream
\* calls its mapper has made, and the clone and stage that threw, if one did.
NewBuild ==
    [state |-> "scheduled", clones |-> << >>, calls |-> << >>,
     failed |-> [rec |-> 0, stage |-> 0]]
NewLoad == [state |-> "scheduled", pos |-> 0]

(***************************************************************************)
(* The state after construction (initialize)                               *)
(***************************************************************************)
BootOptions ==
    { [loadOnInitialize |-> TRUE, buildOnInitialize |-> TRUE, storeOnInitialize |-> TRUE],
      [loadOnInitialize |-> FALSE, buildOnInitialize |-> FALSE, storeOnInitialize |-> FALSE] }

\* options.ignore and options.includeOnly: none; or includeOnly lib/*.js
FilterOptions ==
    { [ignore |-> Absent, includeOnly |-> Absent, dependencies |-> AbsentDeps],
      [ignore |-> Absent, includeOnly |-> << FilterJs >>, dependencies |-> AbsentDeps] }
RuleFilters == { FilterCss, FilterLib }

\* The defaults of the class, lines 52-327.
OptionDefaults ==
    [name |-> "", version |-> "", description |-> "", environment |-> "development",
     ignore |-> Absent, includeOnly |-> Absent, dependencies |-> AbsentDeps,
     adapters |-> AbsentAdapters, pipelining |-> AbsentTable,
     loadOnInitialize |-> TRUE, buildOnInitialize |-> TRUE, storeOnInitialize |-> TRUE]

\* The options object, line 348: what the caller gives over the defaults.
Options(boot, given, table) == (([pipelining |-> table] @@ boot) @@ given) @@ OptionDefaults

\* The directory of a package: its files, what its package.json and its Rhfile
\* declare, the lines of its ignore files.  BareManifest is a package.json with
\* a name and a version only, NoManifest what initialize holds when there is
\* no package.json (this.npmPackage = false), NoConfigFile the same of Rhfile.
BareManifest ==
    [found |-> TRUE, name |-> "tree", version |-> "0.1.0", description |-> "",
     environment |-> "", ignore |-> Absent, includeOnly |-> Absent,
     dependencies |-> AbsentDeps, adapters |-> AbsentAdapters, pipelining |-> AbsentTable]
NoManifest == [BareManifest EXCEPT !.found = FALSE, !.name = "", !.version = ""]
NoConfigFile == [found |-> FALSE, pipelining |-> AbsentTable]
Dir(files) ==
    [files |-> files, npmPackage |-> BareManifest, configFile |-> NoConfigFile,
     rhignore |-> Absent, npmignore |-> Absent, gitignore |-> Absent]

\* options.pipelining: no rule, the rule lib/*.css, or the rules lib/*.css and
\* lib/* in this order, with chains drawn from chains.
Tables(chains) ==
    { << >> }
    \cup { << [filter |-> FilterCss, adapters |-> c] >> : c \in chains }
    \cup { << [filter |-> FilterCss, adapters |-> c], [filter |-> FilterLib, adapters |-> d] >> :
             c \in chains, d \in chains }

RECURSIVE MapRules(_)
MapRules(t) ==
    IF t = << >> THEN << >>
    ELSE << Rule(Head(t).filter, Head(t).adapters) >> \o MapRules(Tail(t))

\* Lines 369-388: the path comes from the package.json or the Rhfile found
\* (this.name is not set yet when the third way is tried).
PathError == "Error: i was unable to determine absolute path"

\* What initialize throws, lines 341-405, the empty string when it returns.
initializeError(opts, dir) ==
    IF ~(dir.npmPackage.found \/ dir.configFile.found) THEN PathError
    ELSE IF Invalid(NameGiven("", opts, dir)) THEN NameError
    ELSE IF Invalid(VersionGiven("", opts, dir)) THEN VersionError
    ELSE IF ~AllValid(setIgnore(FirstGiven(IgnoreSources(Absent, opts, dir)))) THEN "SyntaxError"
    ELSE IF ~AllValid(setIncludeOnly(IncludeOnlyGiven(IncludeOnlySources(Absent, opts, dir))).filters)
         THEN "SyntaxError"
    ELSE IF setDependencies(DependenciesGiven(AbsentDeps, opts, dir)).throws THEN "TypeError"
    ELSE IF setAdapters(AdaptersGiven(opts, dir)).throws THEN InvalidAdapter
    ELSE ""

\* What the setters of initialize leave, lines 395-405.
Constructed(opts, dir) ==
    /\ environment = EnvironmentGiven("", opts, dir)
    /\ name = NameGiven("", opts, dir)
    /\ version = VersionGiven("", opts, dir)
    /\ description = setDescription(environment, "", DescriptionGiven("", opts, dir))
    /\ ignore = setIgnore(FirstGiven(IgnoreSources(Absent, opts, dir)))
    /\ includeOnly = setIncludeOnly(IncludeOnlyGiven(IncludeOnlySources(Absent, opts, dir)))
    /\ dependencies = setDependencies(DependenciesGiven(AbsentDeps, opts, dir)).graph
    /\ adapters = setAdapters(AdaptersGiven(opts, dir)).adapters
    /\ pipelining = MapRules(PipeliningGiven(opts, dir))

\* initialize, for a directory, options and rule tables drawn from the sets
\* given, when it returns.  The second package is constructed from the same
\* path with options of the same values.
InitOf(dirs, boots, givenOptions, tables) ==
    /\ tree \in dirs
    /\ \E boot \in boots, o \in givenOptions, t \in tables : options = Options(boot, o, t)
    /\ initializeError(options, tree) = ""
    /\ Constructed(options, tree)
    /\ peer = [dependencies |-> dependencies, adapters |-> adapters,
               pipelining |-> pipelining, contents |-> << >>]
    /\ manifestRefs = IF RequiredIsManifest(AbsentDeps, options, tree)
                      THEN { "package", "peer" } ELSE { }
    /\ contents = << >>
    /\ loads = IF options.loadOnInitialize THEN << NewLoad >> ELSE << >>
    /\ _loaded = IF options.loadOnInitialize THEN 1 ELSE 0
    /\ builds = << >>
    /\ _build = 0
    /\ bootstrap = IF options.loadOnInitialize THEN "pending" ELSE "none"
    /\ ret = Ret("new", FALSE, "package", 0)
    /\ input = EmptyMap /\ output = EmptyMap
    /\ argument = AbsentDeps

\* initialize when it throws: the constructor returns no package, and no
\* method is called on what it has built so far.
InitThrows(dirs, boots, givenOptions, tables) ==
    /\ tree \in dirs
    /\ \E boot \in boots, o \in givenOptions, t \in tables : options = Options(boot, o, t)
    /\ initializeError(options, tree) # ""
    /\ ret = Ret("new", FALSE, initializeError(options, tree), 0)
    /\ name = "" /\ version = "" /\ description = "" /\ environment = ""
    /\ ignore = << >> /\ includeOnly = NoIncludeOnly
    /\ dependencies = << >> /\ adapters = { } /\ pipelining = << >>
    /\ peer = [dependencies |-> << >>, adapters |-> { }, pipelining |-> << >>, contents |-> << >>]
    /\ manifestRefs = { }
    /\ contents = << >> /\ loads = << >> /\ _loaded = 0
    /\ builds = << >> /\ _build = 0 /\ bootstrap = "none"
    /\ input = EmptyMap /\ output = EmptyMap
    /\ argument = AbsentDeps

Returned == ~(ret.op = "new" /\ ret.out # "package")

InitWith(chains) == InitOf({ Dir(TreeFiles) }, BootOptions, FilterOptions, Tables(chains))

ChainInputs == { << >>, << "less", "css" >> }

\* The package as initialize builds it: setPipelining adds the rules with
\* addPipelining, which throws for a rule that has adapters.
Init == InitWith({ chain \in ChainInputs : \A f \in RuleFilters : ~addPipeliningThrows(f, chain) })

(***************************************************************************)
(* The operations                                                          *)
(***************************************************************************)
\* LoadCached that returns the promise only once it is fulfilled.
LoadCachedWhenFulfilled(force) ==
    _loaded # 0 /\ ~force /\ loads[_loaded].state = "fulfilled"

\* Line 438.
LoadCached(force) == _loaded # 0 /\ ~force

\* load( force ), lines 434-446 and 523.
Load(force) ==
    /\ IF LoadCached(force)
       THEN /\ ret' = Ret("load", force, "cached", _loaded)
            /\ UNCHANGED << loads, _loaded >>
       ELSE /\ Len(loads) < MaxLoads
            /\ loads' = Append(loads, NewLoad)
            /\ _loaded' = Len(loads) + 1
            /\ ret' = Ret("load", force, "promise", Len(loads) + 1)
    /\ UNCHANGED << identity, shared, io, argument, tree, options, dependencies, ignore, includeOnly, pipelining, adapters, contents,
                    builds, _build, bootstrap >>

\* Lines 449-453: the then callback creates the Walker.
LoadStart(w) ==
    /\ loads[w].state = "scheduled"
    /\ loads' = [loads EXCEPT ![w].state = "walking"]
    /\ UNCHANGED << identity, shared, io, argument, tree, options, dependencies, ignore, includeOnly, pipelining, adapters, contents,
                    _loaded, builds, _build, bootstrap, ret >>

\* Lines 456-512: the Walker emits its next file.
WalkFile(w) ==
    /\ loads[w].state = "walking"
    /\ loads[w].pos < Len(tree.files)
    /\ LET relativePath == tree.files[loads[w].pos + 1]
       IN  contents' = IF Included(relativePath)
                       THEN Append(contents, Content(relativePath, w))
                       ELSE contents
    /\ loads' = [loads EXCEPT ![w].pos = @ + 1]
    /\ UNCHANGED << identity, shared, io, argument, tree, options, dependencies, ignore, includeOnly, pipelining, adapters,
                    _loaded, builds, _build, bootstrap, ret >>

\* Line 518: the Walker ends, the promise is fulfilled.
WalkEnd(w) ==
    /\ loads[w].state = "walking"
    /\ loads[w].pos = Len(tree.files)
    /\ loads' = [loads EXCEPT ![w].state = "fulfilled"]
    /\ UNCHANGED << identity, shared, io, argument, tree, options, dependencies, ignore, includeOnly, pipelining, adapters, contents,
                    _loaded, builds, _build, bootstrap, ret >>

\* Line 515: the Walker fails, the promise is rejected.
WalkError(w) ==
    /\ loads[w].state = "walking"
    /\ loads' = [loads EXCEPT ![w].state = "rejected"]
    /\ UNCHANGED << identity, shared, io, argument, tree, options, dependencies, ignore, includeOnly, pipelining, adapters, contents,
                    _loaded, builds, _build, bootstrap, ret >>

\* build( forceRebuild ), lines 907-928 and 969: what it does to the package ...
BuildCall(forceRebuild) ==
    IF BuildFails \/ BuildCached(forceRebuild)
    THEN UNCHANGED << builds, _build >>
    ELSE /\ Len(builds) < MaxBuilds
         /\ builds' = Append(builds, NewBuild)
         /\ _build' = Len(builds) + 1

\* ... and what it returns or throws.
BuildRet(forceRebuild) ==
    IF BuildFails THEN Ret("build", forceRebuild, "Error", 0)
    ELSE IF BuildCached(forceRebuild) THEN Ret("build", forceRebuild, "cached", _build)
    ELSE Ret("build", forceRebuild, "promise", Len(builds) + 1)

Build(forceRebuild) ==
    /\ BuildCall(forceRebuild)
    /\ ret' = BuildRet(forceRebuild)
    /\ UNCHANGED << identity, shared, io, argument, tree, options, dependencies, ignore, includeOnly, pipelining, adapters, contents,
                    loads, _loaded, bootstrap >>

\* Lines 931-933: the first map clones the records the contents array holds
\* when the stage runs.
BuildClone(b) ==
    /\ builds[b].state = "scheduled"
    /\ builds' = [builds EXCEPT ![b].state = "cloned", ![b].clones = contents]
    /\ UNCHANGED << identity, shared, io, argument, tree, options, dependencies, ignore, includeOnly, pipelining, adapters, contents,
                    loads, _loaded, _build, bootstrap, ret >>

\* Lines 937-951: the second map.  Either every clone goes through its chain,
\* or fs.readFile (stage 0) or an adapter (stage j) throws on clone k, which
\* rejects the promise; the clones after k are not mapped.
BuildMap(b) ==
    /\ builds[b].state = "cloned"
    /\ LET clones == builds[b].clones
       IN  \/ builds' = [builds EXCEPT
                  ![b].state = "mapped",
                  ![b].clones = [i \in 1..Len(clones) |-> Processed(clones[i])],
                  ![b].calls = CallsOfRecords(b, clones, Len(clones))]
           \/ \E k \in 1..Len(clones) : \E j \in 0..Len(clones[k].adapters.chain) :
                builds' = [builds EXCEPT
                    ![b].state = "rejected",
                    ![b].clones = << >>,
                    ![b].calls = CallsOfRecords(b, clones, k - 1)
                                 \o Calls(b, k, clones[k].adapters.chain, j),
                    ![b].failed = [rec |-> k, stage |-> j]]
    /\ contents' = ContentsAfterMap(b)
    /\ UNCHANGED << identity, shared, io, argument, tree, options, dependencies, ignore, includeOnly, pipelining, adapters,
                    loads, _loaded, _build, bootstrap, ret >>

\* Lines 954-967: the stages left to do (map, reduce, then) return nothing: the
\* promise is fulfilled with undefined.
BuildWrap(b) ==
    /\ builds[b].state = "mapped"
    /\ builds' = [builds EXCEPT ![b].state = "fulfilled", ![b].clones = << >>]
    /\ UNCHANGED << identity, shared, io, argument, tree, options, dependencies, ignore, includeOnly, pipelining, adapters, contents,
                    loads, _loaded, _build, bootstrap, ret >>

\* store(), lines 972-979: the body is comments.
StoreRet == Ret("store", FALSE, "undefined", 0)

Store ==
    /\ ret' = StoreRet
    /\ UNCHANGED << identity, shared, io, argument, tree, options, dependencies, ignore, includeOnly, pipelining, adapters, contents,
                    loads, _loaded, builds, _build, bootstrap >>

\* Lines 412-420: the callback initialize attaches to the first load.
BootstrapThen ==
    /\ bootstrap = "pending"
    /\ loads[1].state = "fulfilled"
    /\ bootstrap' = "done"
    /\ IF options.buildOnInitialize
       THEN /\ BuildCall(FALSE)
            /\ ret' = IF ~BuildFails /\ options.storeOnInitialize
                      THEN StoreRet ELSE BuildRet(FALSE)
       ELSE UNCHANGED << builds, _build, ret >>
    /\ UNCHANGED << identity, shared, io, argument, tree, options, dependencies, ignore, includeOnly, pipelining, adapters, contents,
                    loads, _loaded >>

\* resetContents, lines 424-426.
ResetContents ==
    /\ contents' = << >>
    /\ ret' = Ret("resetContents", FALSE, "undefined", 0)
    /\ UNCHANGED << identity, shared, io, argument, tree, options, dependencies, ignore, includeOnly, pipelining, adapters,
                    loads, _loaded, builds, _build, bootstrap >>

\* bindAdapter, lines 735-739.
BindAdapter(adapter) ==
    /\ IF resolveAdapterThrows(adapter)
       THEN /\ ret' = Ret("bindAdapter", FALSE, resolveAdapterError(adapter), 0)
            /\ UNCHANGED adapters
       ELSE /\ adapters' = adapters \cup { adapter }
            /\ ret' = Ret("bindAdapter", FALSE, adapter, 0)
    /\ UNCHANGED << identity, shared, io, argument, tree, options, dependencies, ignore, includeOnly, pipelining, contents,
                    loads, _loaded, builds, _build, bootstrap >>

\* unbindAdapter, lines 741-744.
UnbindAdapter(adapter) ==
    /\ IF resolveAdapterThrows(adapter)
       THEN /\ ret' = Ret("unbindAdapter", FALSE, resolveAdapterError(adapter), 0)
            /\ UNCHANGED adapters
       ELSE /\ adapters' = adapters \ { adapter }
            /\ ret' = Ret("unbindAdapter", FALSE, "undefined", 0)
    /\ UNCHANGED << identity, shared, io, argument, tree, options, dependencies, ignore, includeOnly, pipelining, contents,
                    loads, _loaded, builds, _build, bootstrap >>

\* hasAdapter, lines 730-733.
HasAdapter(adapter) ==
    /\ ret' = IF resolveAdapterThrows(adapter)
              THEN Ret("hasAdapter", FALSE, resolveAdapterError(adapter), 0)
              ELSE Ret("hasAdapter", FALSE, IF hasAdapter(adapter) THEN "true" ELSE "false", 0)
    /\ UNCHANGED << identity, shared, io, argument, tree, options, dependencies, ignore, includeOnly, pipelining, adapters, contents,
                    loads, _loaded, builds, _build, bootstrap >>

\* setIgnore( ignore ), lines 588-649: ignore.map throws on a filter that does
\* not compile, before this.ignore is assigned.
SetIgnore(arg) ==
    /\ LET compiled == setIgnore(FirstGiven(IgnoreSources(arg, options, tree)))
       IN  IF AllValid(compiled)
           THEN /\ ignore' = compiled
                /\ ret' = Ret("setIgnore", FALSE, "undefined", 0)
           ELSE /\ ret' = Ret("setIgnore", FALSE, "SyntaxError", 0)
                /\ UNCHANGED ignore
    /\ UNCHANGED << identity, shared, io, argument, tree, options, dependencies, includeOnly, pipelining, adapters, contents,
                    loads, _loaded, builds, _build, bootstrap >>

\* SetDependencies that assigns this.dependencies, and adds required and
\* optional, before it validates.
SetDependenciesAssignsFirst(arg) ==
    /\ LET given == DependenciesGiven(arg, options, tree)
           outcome == setDependencies(given)
           graph == IF NonStringEntry(given) THEN << >>
                    ELSE IF given.shape = "array" THEN ExpandArray(given.list)
                    ELSE WrapFlat(given.obj)
           assigned == WithDefault(WithDefault(graph, Required), Optional)
       IN  IF outcome.throws
           THEN /\ ret' = Ret("setDependencies", FALSE, "TypeError", 0)
                /\ dependencies' = assigned
                /\ argument' = IF arg.shape = "object" /\ graph = arg.obj
                                THEN ObjectDeps(assigned) ELSE arg
                /\ UNCHANGED manifestRefs
           ELSE /\ dependencies' = outcome.graph
                /\ argument' = IF arg.shape = "absent" THEN arg ELSE outcome.given
                /\ manifestRefs' = IF RequiredIsManifest(arg, options, tree)
                                   THEN manifestRefs \cup { "package" }
                                   ELSE manifestRefs \ { "package" }
                /\ ret' = Ret("setDependencies", FALSE, "true", 0)
    /\ UNCHANGED << identity, io, peer, tree, options, ignore, includeOnly, pipelining, adapters, contents,
                    loads, _loaded, builds, _build, bootstrap >>

\* setDependencies( dependencies ), lines 804-893: the graph is assigned after
\* the validation, so a call that throws leaves this.dependencies.
SetDependencies(arg) ==
    /\ LET outcome == setDependencies(DependenciesGiven(arg, options, tree))
       IN  IF outcome.throws
           THEN /\ ret' = Ret("setDependencies", FALSE, "TypeError", 0)
                /\ argument' = arg
                /\ UNCHANGED << dependencies, manifestRefs >>
           ELSE /\ dependencies' = outcome.graph
                /\ argument' = IF arg.shape = "absent" THEN arg ELSE outcome.given
                /\ manifestRefs' = IF RequiredIsManifest(arg, options, tree)
                                   THEN manifestRefs \cup { "package" }
                                   ELSE manifestRefs \ { "package" }
                /\ ret' = Ret("setDependencies", FALSE, "true", 0)
    /\ UNCHANGED << identity, io, peer, tree, options, ignore, includeOnly, pipelining, adapters, contents,
                    loads, _loaded, builds, _build, bootstrap >>

\* RuleOf that selects required whatever optional is.
RuleOfRequiredOnly(optional) == Required

\* The sub-map addDependency and removeDependency work on:
\* ! optional ? 'required' : 'optional'
RuleOf(optional) == IF optional THEN Optional ELSE Required

\* Line 896: this.dependencies[ rule ][ packageName ] = packageVersion.  The
\* rules required and optional of the model's graphs hold objects.
addDependency(graph, packageName, packageVersion, optional) ==
    [graph EXCEPT ![RuleOf(optional)].m =
        [ dep \in DOMAIN @ \cup { packageName } |->
            IF dep = packageName THEN packageVersion ELSE @[dep] ]]

\* Line 900: delete this.dependencies[ rule ][ packageName ]
removeDependency(graph, packageName, optional) ==
    [graph EXCEPT ![RuleOf(optional)].m = [ dep \in DOMAIN @ \ { packageName } |-> @[dep] ]]

\* An assignment to, or a delete from, the sub-map of a rule reaches every
\* holder of that object: when required is the manifest's object, the
\* manifest and the other packages whose required is that object.
WritesManifest(optional) == ~optional /\ "package" \in manifestRefs

Written(graph, optional) ==
    /\ dependencies' = graph
    /\ IF WritesManifest(optional)
       THEN /\ tree' = [tree EXCEPT !.npmPackage.dependencies = Flat(graph[Required].m)]
            /\ peer' = IF "peer" \in manifestRefs
                       THEN [peer EXCEPT !.dependencies[Required].m = graph[Required].m]
                       ELSE peer
       ELSE UNCHANGED << tree, peer >>

\* addDependency( packageName, packageVersion, optional ), lines 895-897.
AddDependency(packageName, packageVersion, optional) ==
    /\ Written(addDependency(dependencies, packageName, packageVersion, optional), optional)
    /\ ret' = Ret("addDependency", optional, "undefined", 0)
    /\ UNCHANGED << identity, io, argument, manifestRefs, options, ignore, includeOnly, pipelining, adapters, contents,
                    loads, _loaded, builds, _build, bootstrap >>

\* removeDependency( packageName, optional ), lines 899-901.
RemoveDependency(packageName, optional) ==
    /\ Written(removeDependency(dependencies, packageName, optional), optional)
    /\ ret' = Ret("removeDependency", optional, "undefined", 0)
    /\ UNCHANGED << identity, io, argument, manifestRefs, options, ignore, includeOnly, pipelining, adapters, contents,
                    loads, _loaded, builds, _build, bootstrap >>

\* setName( name ), lines 532-545.
SetName(arg) ==
    /\ LET given == NameGiven(arg, options, tree)
       IN  IF Invalid(given)
           THEN /\ ret' = Ret("setName", FALSE, NameError, 0)
                /\ UNCHANGED name
           ELSE /\ name' = given
                /\ ret' = Ret("setName", FALSE, "undefined", 0)
    /\ UNCHANGED << version, description, environment, shared, io, argument, tree, options, dependencies, ignore,
                    includeOnly, pipelining, adapters, contents,
                    loads, _loaded, builds, _build, bootstrap >>

\* setVersion( version ), lines 552-565.
SetVersion(arg) ==
    /\ LET given == VersionGiven(arg, options, tree)
       IN  IF Invalid(given)
           THEN /\ ret' = Ret("setVersion", FALSE, VersionError, 0)
                /\ UNCHANGED version
           ELSE /\ version' = given
                /\ ret' = Ret("setVersion", FALSE, "undefined", 0)
    /\ UNCHANGED << name, description, environment, shared, io, argument, tree, options, dependencies, ignore,
                    includeOnly, pipelining, adapters, contents,
                    loads, _loaded, builds, _build, bootstrap >>

\* setDescription( description ), lines 572-586.
SetDescription(arg) ==
    /\ description' = setDescription(environment, description, DescriptionGiven(arg, options, tree))
    /\ ret' = Ret("setDescription", FALSE, "undefined", 0)
    /\ UNCHANGED << name, version, environment, shared, io, argument, tree, options, dependencies, ignore,
                    includeOnly, pipelining, adapters, contents,
                    loads, _loaded, builds, _build, bootstrap >>

\* setEnvironment( environment ), lines 793-802.
SetEnvironment(arg) ==
    /\ environment' = EnvironmentGiven(arg, options, tree)
    /\ ret' = Ret("setEnvironment", FALSE, "undefined", 0)
    /\ UNCHANGED << name, version, description, shared, io, argument, tree, options, dependencies, ignore,
                    includeOnly, pipelining, adapters, contents,
                    loads, _loaded, builds, _build, bootstrap >>

\* addPipelining, lines 767-791.
AddPipelining(filter, chain) ==
    /\ IF addPipeliningThrows(filter, chain)
       THEN /\ ret' = Ret("addPipelining", FALSE, "TypeError", 0)
            /\ UNCHANGED pipelining
       ELSE /\ pipelining' = Append(pipelining, Rule(filter, chain))
            /\ ret' = Ret("addPipelining", FALSE, "true", 0)
    /\ UNCHANGED << identity, shared, io, argument, tree, options, dependencies, ignore, includeOnly, adapters, contents,
                    loads, _loaded, builds, _build, bootstrap >>

(***************************************************************************)
(* The input and output file maps of Package                                *)
(***************************************************************************)
\* if ( map[ file ] ): the map has the key and its content is truthy; the
\* empty string is falsy.
Holds(map, file) == file \in DOMAIN map /\ map[file] # ""

\* map[ file ] = content
Put(map, file, content) ==
    [ f \in DOMAIN map \cup { file } |-> IF f = file THEN content ELSE map[f] ]

\* delete map[ file ]
Delete(map, file) == [ f \in DOMAIN map \ { file } |-> map[f] ]

AlreadyThere == "Error: We already have an ouput with that path"
NoSuchInput == "Error: It seems that the input you're trying to remove doesn't exist"
NoSuchOutput == "Error: It seems that the output you're trying to remove doesn't exist"

\* addInput( file, content )
AddInput(file, content) ==
    /\ IF Holds(input, file)
       THEN /\ ret' = Ret("addInput", FALSE, AlreadyThere, 0)
            /\ UNCHANGED input
       ELSE /\ input' = Put(input, file, content)
            /\ ret' = Ret("addInput", FALSE, "true", 0)
    /\ UNCHANGED << identity, shared, output, argument, tree, options, dependencies, ignore, includeOnly,
                    pipelining, adapters, contents, loads, _loaded, builds, _build, bootstrap >>

\* removeInput( file )
RemoveInput(file) ==
    /\ IF ~Holds(input, file)
       THEN /\ ret' = Ret("removeInput", FALSE, NoSuchInput, 0)
            /\ UNCHANGED input
       ELSE /\ input' = Delete(input, file)
            /\ ret' = Ret("removeInput", FALSE, "true", 0)
    /\ UNCHANGED << identity, shared, output, argument, tree, options, dependencies, ignore, includeOnly,
                    pipelining, adapters, contents, loads, _loaded, builds, _build, bootstrap >>

\* addOutput( file, content )
AddOutput(file, content) ==
    /\ IF Holds(output, file)
       THEN /\ ret' = Ret("addOutput", FALSE, AlreadyThere, 0)
            /\ UNCHANGED output
       ELSE /\ output' = Put(output, file, content)
            /\ ret' = Ret("addOutput", FALSE, "true", 0)
    /\ UNCHANGED << identity, shared, input, argument, tree, options, dependencies, ignore, includeOnly,
                    pipelining, adapters, contents, loads, _loaded, builds, _build, bootstrap >>

\* removeOutput( file )
RemoveOutput(file) ==
    /\ IF ~Holds(output, file)
       THEN /\ ret' = Ret("removeOutput", FALSE, NoSuchOutput, 0)
            /\ UNCHANGED output
       ELSE /\ output' = Delete(output, file)
            /\ ret' = Ret("removeOutput", FALSE, "true", 0)
    /\ UNCHANGED << identity, shared, input, argument, tree, options, dependencies, ignore, includeOnly,
                    pipelining, adapters, contents, loads, _loaded, builds, _build, bootstrap >>

\* resetIO(): resetInput and resetOutput delete every key.
ResetIO ==
    /\ input' = EmptyMap
    /\ output' = EmptyMap
    /\ ret' = Ret("resetIO", FALSE, "undefined", 0)
    /\ UNCHANGED << identity, shared, argument, tree, options, dependencies, ignore, includeOnly,
                    pipelining, adapters, contents, loads, _loaded, builds, _build, bootstrap >>

\* The steps of the load promises and their Walkers.
Discovery ==
    \/ \E w \in 1..Len(loads) : LoadStart(w)
    \/ \E w \in 1..Len(loads) : WalkFile(w)
    \/ \E w \in 1..Len(loads) : WalkEnd(w)
    \/ \E w \in 1..Len(loads) : WalkError(w)

\* build() and store(), their callers and the steps of the build promises.
Building ==
    \/ BootstrapThen
    \/ \E forceRebuild \in BOOLEAN : Build(forceRebuild)
    \/ \E b \in 1..Len(builds) : BuildClone(b)
    \/ \E b \in 1..Len(builds) : BuildMap(b)
    \/ \E b \in 1..Len(builds) : BuildWrap(b)
    \/ Store
    \/ \E a \in AdapterInputs : BindAdapter(a)
    \/ \E a \in AdapterInputs : UnbindAdapter(a)

Next ==
    \/ \E force \in BOOLEAN : Load(force)
    \/ Discovery
    \/ Building

Spec == Init /\ [][Next]_vars

\* Discovery alone: the calls of load() and the Walkers.
NextLoad ==
    \/ \E force \in BOOLEAN : Load(force)
    \/ Discovery

SpecLoad == Init /\ [][NextLoad]_vars

\* The build of a package whose rules have adapters: the rule table is given
\* (package.pipelining filled by the caller), the package loads once.
InitChains == InitWith(ChainInputs)

NextBuild ==
    \/ Discovery
    \/ Building

SpecBuild == InitChains /\ [][NextBuild]_vars

\* The package as initialize builds it, which loads once (the bootstrap's load).
SpecPackage == Init /\ [][NextBuild]_vars

\* The bootstrap of initialize alone: constructors with every setting of the
\* three flags, and no caller of load, build or store but initialize.
AllBoots ==
    [loadOnInitialize : BOOLEAN, buildOnInitialize : BOOLEAN, storeOnInitialize : BOOLEAN]

InitBootstrap ==
    InitOf({ Dir(TreeFiles), Dir(TreeAB) }, AllBoots, { OptionDefaults }, { AbsentTable, << >> })

NextBootstrap ==
    \/ Discovery
    \/ BootstrapThen
    \/ \E b \in 1..Len(builds) : BuildClone(b)
    \/ \E b \in 1..Len(builds) : BuildMap(b)
    \/ \E b \in 1..Len(builds) : BuildWrap(b)

SpecBootstrap == InitBootstrap /\ [][NextBootstrap]_vars

\* Discovery under the filters: packages over the two directories TreeAB and
\* TreeDeep, loaded on initialize, with the ignore and includeOnly options below.
LoadOnly ==
    { [loadOnInitialize |-> TRUE, buildOnInitialize |-> FALSE, storeOnInitialize |-> FALSE] }

FilterInputs ==
    { [ignore |-> f[1], includeOnly |-> f[2], dependencies |-> AbsentDeps] :
        f \in { << Absent, Absent >>,
                << << StarCss >>, Absent >>,
                << << StarCss >>, << StarCss >> >>,
                << Absent, << Star >> >>,
                << Absent, << AStar >> >>,
                << Absent, << StarLess >> >>,
                << Absent, << DoubleStarLess >> >>,
                << Absent, << StarSlashStar >> >>,
                << Absent, << >> >>,
                << << StarCss >>, << Blank >> >> } }

InitFilter == InitOf({ Dir(TreeAB), Dir(TreeDeep) }, LoadOnly, FilterInputs, { AbsentTable })

SpecFilter == InitFilter /\ [][Discovery]_vars

\* The sources of the ignore list: packages that differ by options.ignore, by
\* the ignore key of package.json and by their three ignore files, and a caller
\* of setIgnore with and without an argument.
NoBoot ==
    { [loadOnInitialize |-> FALSE, buildOnInitialize |-> FALSE, storeOnInitialize |-> FALSE] }

IgnoreOptions ==
    { [ignore |-> i, includeOnly |-> Absent, dependencies |-> AbsentDeps] :
        i \in { Absent, << >>, << StarCss >> } }

\* .rhignore: none, an empty file, or the line *.less; .gitignore: none, or the
\* line *.css and the end of that line.
IgnoreDirs ==
    { [Dir(TreeAB) EXCEPT !.npmPackage.ignore = m,
                          !.rhignore = r, !.npmignore = n, !.gitignore = g] :
         m \in { Absent, << AStar >> },
         r \in { Absent, << Blank >>, << StarLess >> },
         n \in { Absent, << Star >> },
         g \in { Absent, << StarCss, Blank >> } }

IgnoreArgs == { Absent, << >>, << AStar >> }

InitIgnore == InitOf(IgnoreDirs, NoBoot, IgnoreOptions, { AbsentTable })

NextIgnore == \E arg \in IgnoreArgs : SetIgnore(arg)

SpecIgnore == InitIgnore /\ [][NextIgnore]_vars

\* The dependency graph: packages that differ by options.dependencies and by
\* the dependencies of package.json, and a caller of setDependencies,
\* addDependency and removeDependency.
MapOne == [ dep \in { LeftPad } |-> "1.0" ]
MapTwo == [ dep \in { LeftPad, Lodash } |-> IF dep = LeftPad THEN "1.0" ELSE "2.0" ]

\* Objects keyed by rules, and one that mixes a rule and a name.
RuleKeyed ==
    { ObjectDeps([ rule \in { Required } |-> ObjectValue(MapOne) ]),
      ObjectDeps([ rule \in { Optional } |-> ObjectValue(MapTwo) ]),
      ObjectDeps([ rule \in { Required, Optional, EnvRequiredDev } |->
                     IF rule = Optional THEN ObjectValue(MapOne) ELSE ObjectValue(MapTwo) ]) }

\* An object whose one key is a rule of an environment with no name.
EmptyEnvironment == ObjectDeps([ rule \in { EnvRequiredEmpty } |-> ObjectValue(MapOne) ])

Mixed ==
    ObjectDeps([ key \in { Required, Lodash } |->
                   IF key = Required THEN ObjectValue(MapOne) ELSE StringValue("1.0") ])

\* An array whose second entry is a number.
NumberInArray == ArrayDeps(<< LeftPad, NumberEntry >>)

DepArgs ==
    { AbsentDeps, ArrayDeps(<< >>), ArrayDeps(<< Lodash >>), ArrayDeps(<< LeftPad, Lodash >>),
      ObjectDeps(<< >>), Flat(MapOne), Flat(MapTwo), Mixed, EmptyEnvironment }
    \cup RuleKeyed

DepOptions ==
    { [ignore |-> Absent, includeOnly |-> Absent, dependencies |-> d] :
        d \in { AbsentDeps, ArrayDeps(<< Lodash >>) } }

DepDirs ==
    { [Dir(TreeAB) EXCEPT !.npmPackage.dependencies = d] : d \in { AbsentDeps, Flat(MapOne) } }

\* The names a caller adds and removes; neither is a rule.
DepNames == { LeftPad, Lodash }
DepVersion == "1.0"

InitDeps == InitOf(DepDirs, NoBoot, DepOptions, { AbsentTable })

NextDeps ==
    \/ \E arg \in DepArgs : SetDependencies(arg)
    \/ \E packageName \in DepNames, optional \in BOOLEAN :
          AddDependency(packageName, DepVersion, optional)
    \/ \E packageName \in DepNames, optional \in BOOLEAN :
          RemoveDependency(packageName, optional)

SpecDeps == InitDeps /\ [][NextDeps]_vars

\* The calls of setDependencies that fail among those that succeed: the
\* arguments above and the array with a number, on graphs that addDependency
\* has filled.
SetArgs == DepArgs \cup { NumberInArray }

NextSet ==
    \/ \E arg \in SetArgs : SetDependencies(arg)
    \/ \E packageName \in DepNames, optional \in BOOLEAN :
          AddDependency(packageName, DepVersion, optional)

SpecSet == InitDeps /\ [][NextSet]_vars

\* The identity of a package: constructors that differ by what the options
\* and the package.json give for each field both can set, by the package.json
\* and the Rhfile being there, and a caller of setName, setVersion,
\* setDescription and setEnvironment with and without an argument.
OneRule(filter) == << [filter |-> filter, adapters |-> << >>] >>

IdentityOptions ==
    { [name |-> ""],
      [name |-> "opt"],
      [version |-> "9.9.9", environment |-> "production", description |-> "from options"],
      [name |-> "opt", version |-> "9.9.9", description |-> "from options",
       ignore |-> << StarCss >>, includeOnly |-> << Star >>,
       dependencies |-> ArrayDeps(<< Lodash >>), adapters |-> << "css" >>] }

IdentityTables == { AbsentTable, OneRule(FilterCss) }

FullManifest ==
    [BareManifest EXCEPT !.description = "from manifest", !.ignore = << AStar >>,
                         !.includeOnly = << StarLess >>, !.dependencies = Flat(MapOne),
                         !.adapters = << "less", "js" >>, !.pipelining = OneRule(FilterLib)]

IdentityDirs ==
    { [Dir(TreeAB) EXCEPT !.npmPackage = m, !.configFile.found = c] :
        m \in { BareManifest, FullManifest, NoManifest,
                [BareManifest EXCEPT !.name = ""], [FullManifest EXCEPT !.version = ""] },
        c \in BOOLEAN }

InitIdentity ==
    \/ InitOf(IdentityDirs, NoBoot, IdentityOptions, IdentityTables)
    \/ InitThrows(IdentityDirs, NoBoot, IdentityOptions, IdentityTables)

NextIdentity ==
    \/ \E arg \in { "", "other" } : Returned /\ SetName(arg)
    \/ \E arg \in { "", "2.0.0" } : Returned /\ SetVersion(arg)
    \/ \E arg \in { "", "text" } : Returned /\ SetDescription(arg)
    \/ \E arg \in { "", "production", "test" } : Returned /\ SetEnvironment(arg)

SpecIdentity == InitIdentity /\ [][NextIdentity]_vars

\* The adapter registry and the rule list: a caller of bindAdapter,
\* unbindAdapter and hasAdapter with adapters that resolve and values that do
\* not, and of addPipelining with and without adapters.
AdapterArgs == { "js", "css", Nameless, Null, Number }
PipeliningArgs == { << >>, << "css" >>, << "less", "css" >> }
MaxRules == 2

InitAdapters == InitOf({ Dir(TreeAB) }, NoBoot, { OptionDefaults }, { AbsentTable })

NextAdapters ==
    \/ \E adapter \in AdapterArgs : BindAdapter(adapter)
    \/ \E adapter \in AdapterArgs : UnbindAdapter(adapter)
    \/ \E adapter \in AdapterArgs : HasAdapter(adapter)
    \/ \E filter \in RuleFilters, chain \in PipeliningArgs :
          Len(pipelining) < MaxRules /\ AddPipelining(filter, chain)

SpecAdapters == InitAdapters /\ [][NextAdapters]_vars

\* Two packages of one path: a caller of addDependency, removeDependency,
\* bindAdapter, unbindAdapter and addPipelining on the first.
NextIsolation ==
    \/ \E packageName \in { LeftPad, Lodash }, optional \in BOOLEAN :
          AddDependency(packageName, DepVersion, optional)
    \/ \E packageName \in { LeftPad, Lodash }, optional \in BOOLEAN :
          RemoveDependency(packageName, optional)
    \/ BindAdapter("css")
    \/ UnbindAdapter("css")
    \/ Len(pipelining) < MaxRules /\ AddPipelining(FilterCss, << >>)

SpecIsolation == InitDeps /\ [][NextIsolation]_vars

\* The same package with a caller that also empties its contents.
NextCache ==
    \/ NextBuild
    \/ ResetContents

SpecCache == Init /\ [][NextCache]_vars

\* The file maps: two files, with a content or with the empty content.
Files == { "a.js", "b.css" }
Contents == { "", "text" }

NextFiles ==
    \/ \E file \in Files, content \in Contents : AddInput(file, content)
    \/ \E file \in Files : RemoveInput(file)
    \/ \E file \in Files, content \in Contents : AddOutput(file, content)
    \/ \E file \in Files : RemoveOutput(file)
    \/ ResetIO

SpecFiles == InitDeps /\ [][NextFiles]_vars

(***************************************************************************)
(* The claims                                                              *)
(***************************************************************************)
\* The rules whose compiled filter matches the relative path of a record.
MatchingRules(content) ==
    { r \in 1..Len(pipelining) : Matches[pipelining[r].filter, content.relative] }

InFlight(w) == loads[w].state \in { "scheduled", "walking" }

\* A step that is a call of op returning or throwing something new.
Called(op) == ret' # ret /\ ret'.op = op

\* C1: the chain of every content record is the chain of the first rule, in
\* declaration order, whose filter matches the record's relative path.
C1_FirstMatchingRuleWins ==
    \A i \in 1..Len(contents) :
        LET matching == MatchingRules(contents[i])
        IN  matching # {} =>
              /\ contents[i].adapters.rule \in matching
              /\ \A r \in matching : contents[i].adapters.rule <= r

\* C2: a record whose relative path matches no rule has the default chain, made
\* of adapters the package has bound: not the chain of a rule, and not undefined.
C2_DefaultChainWhenNoRuleMatches ==
    \A i \in 1..Len(contents) :
        MatchingRules(contents[i]) = {} =>
          /\ contents[i].adapters.rule = 0
          /\ contents[i].adapters # NoChain
          /\ \A k \in 1..Len(contents[i].adapters.chain) :
                contents[i].adapters.chain[k] \in AdapterNames

\* C3: build() without the rebuild flag, called on a package that holds the
\* promise of an earlier build() (that build finished or still in flight) and
\* passes the preconditions, returns that promise and starts no run: no promise
\* is created, no clone is made and no adapter is invoked by the call.  When
\* the call before it was that earlier build(), it returns what that one did.
C3_SecondBuildReturnsCached ==
    [][ (Called("build") /\ ~ret'.arg /\ _build # 0 /\ ~BuildFails)
          => /\ ret'.out = "cached"
             /\ ret'.id = _build
             /\ (ret.op = "build" /\ ret.out # "Error") => ret'.id = ret.id
             /\ UNCHANGED << builds, _build, contents >> ]_vars

\* A build() without the flag has returned the cached promise of a run that is
\* over and whose mapper called adapters; no second run exists.
C3_Witness ==
    /\ ret = Ret("build", FALSE, "cached", 1)
    /\ Len(builds) = 1
    /\ builds[1].state = "fulfilled"
    /\ builds[1].calls # << >>

\* C4: build() on a package with no content record, or with no adapter bound,
\* throws an Error, and the call creates no promise, starts no run and leaves
\* the cached promise as it was.
C4_BuildPreconditions ==
    [][ (Called("build") /\ (contents = << >> \/ adapters = {}))
          => /\ ret'.out = "Error"
             /\ UNCHANGED << builds, _build, contents, adapters >> ]_vars

\* build() has thrown on a package that has content records and no adapter.
C4_Witness ==
    /\ ret.op = "build"
    /\ ret.out = "Error"
    /\ contents # << >>
    /\ adapters = {}

CallsOf(b, i) == SelectSeq(builds[b].calls, LAMBDA c : c.rec = i)

\* C6: when the mapper of a run is done, every clone's stream has been through
\* the adapters of its chain in chain order, each adapter called once, the
\* first with the stream read from the file and each next one with what the
\* adapter before it returned; a clone with an empty chain keeps that stream.
C6_ChainInOrder ==
    \A b \in 1..Len(builds) :
        builds[b].state = "mapped" =>
          \A i \in 1..Len(builds[b].clones) :
              LET chain == builds[b].clones[i].adapters.chain
                  calls == CallsOf(b, i)
              IN  /\ Len(calls) = Len(chain)
                  /\ \A j \in 1..Len(calls) :
                        /\ calls[j].adapter = chain[j]
                        /\ calls[j].input =
                             IF j = 1 THEN Undefined
                             ELSE buildStream(calls[j - 1].adapter, calls[j - 1].input)
                  /\ builds[b].clones[i].stream =
                       IF chain = << >> THEN Undefined
                       ELSE buildStream(calls[Len(calls)].adapter, calls[Len(calls)].input)

\* A mapper is done with a clone whose chain is less, css: css was given what
\* less returned.
C6_Witness ==
    \E b \in 1..Len(builds) :
        /\ builds[b].state = "mapped"
        /\ \E i \in 1..Len(builds[b].clones) :
              /\ builds[b].clones[i].adapters.chain = << "less", "css" >>
              /\ builds[b].clones[i].stream = << "less", "css" >>
              /\ CallsOf(b, i)[2].input = << "less" >>

\* C7: store() on a package that has no fulfilled build promise throws.
C7_StoreNeedsBuild ==
    (ret.op = "store" /\ (_build = 0 \/ builds[_build].state # "fulfilled"))
      => ret.out = "Error"

\* C8: a promise of load(), and with it a walk, is created only by the first
\* call of load() or by a call with the force flag; a call without the flag
\* made when a promise is held returns that promise, in flight or settled, and
\* changes nothing.
C8_LoadMemoized ==
    [][ /\ Len(loads') # Len(loads)
            => /\ Called("load")
               /\ ret'.arg \/ _loaded = 0
               /\ Len(loads') = Len(loads) + 1
        /\ (Called("load") /\ ~ret'.arg /\ _loaded # 0)
            => /\ ret'.out = "cached"
               /\ ret'.id = _loaded
               /\ UNCHANGED << loads, _loaded, contents >> ]_vars

\* load() without the flag has returned the promise of the one walk there is,
\* which is still walking.
C8_Witness ==
    /\ ret = Ret("load", FALSE, "cached", 1)
    /\ Len(loads) = 1
    /\ loads[1].state = "walking"
    /\ loads[1].pos > 0

\* C9: contents holds no record of a walk whose Walker has emitted error.
C9_FailedWalkLeavesNoRecords ==
    \A w \in 1..Len(loads) :
        loads[w].state = "rejected" =>
          \A i \in 1..Len(contents) : contents[i].walk # w

\* C10: when a run of build() starts on the content records (its first stage
\* clones them), no load of the package is in flight.
C10_BuildAfterDiscovery ==
    [][ \A b \in 1..Len(builds) :
          (builds[b].state = "scheduled" /\ builds'[b].state = "cloned")
            => \A w \in 1..Len(loads) : ~InFlight(w) ]_vars

\* C11: once build() has stored a promise, every later build() without the
\* rebuild flag returns that promise, whatever was called in between, and only
\* a build() with the flag replaces the promise stored.
C11_CachedUntilRebuild ==
    [][ /\ (Called("build") /\ ~ret'.arg /\ _build # 0)
            => /\ ret'.out = "cached"
               /\ ret'.id = _build
               /\ _build' = _build
        /\ (_build # 0 /\ _build' # _build)
            => /\ Called("build")
               /\ ret'.arg ]_vars

\* C12: no step of build() (the call, the clone, the mapper whether it ends or
\* throws, the last stages) changes package.contents, and the records of
\* contents keep the unset stream and the chain discovery gave them.
C12_BuildLeavesContents ==
    [][ (builds' # builds \/ Called("build"))
          => /\ contents' = contents
             /\ \A i \in 1..Len(contents') :
                   /\ contents'[i].stream = Undefined
                   /\ contents'[i].adapters = ChainFor(contents'[i].relative) ]_vars

\* One run has been through the adapters of a record and ended, another has
\* been rejected by an adapter, and the record in contents has no stream.
C12_Witness ==
    /\ contents # << >>
    /\ contents[1].adapters.chain # << >>
    /\ contents[1].stream = Undefined
    /\ \E b \in 1..Len(builds) : builds[b].state = "fulfilled" /\ builds[b].calls # << >>
    /\ \E b \in 1..Len(builds) : builds[b].state = "rejected" /\ builds[b].failed.stage > 0

\* The relative paths of the records in contents, and whether the one load of
\* the package has walked the whole tree.
Discovered == { contents[i].relative : i \in 1..Len(contents) }
Walked == Len(loads) = 1 /\ loads[1].state = "fulfilled"

\* C13: for the package whose root holds a.js and b.css, with ignore *.css and
\* the adapter js, discovery yields exactly one record, the one of a.js.
C13_OnlyAJsDiscovered ==
    (/\ tree.files = TreeAB
     /\ options.ignore = << StarCss >>
     /\ options.includeOnly = Absent
     /\ adapters = { "js" }
     /\ Walked)
      => /\ Len(contents) = 1
         /\ contents[1].relative = TreeAB[1]

\* C14: no record of contents is for a hidden file, whatever the ignore and
\* includeOnly options and the depth of the file; and with no ignore option
\* and no includeOnly, where the hidden-file filter is the only filter, every
\* file that is not hidden has its record once the walk is over.
C14_HiddenFilesExcluded ==
    /\ \A i \in 1..Len(contents) : ~IsHidden(contents[i].relative)
    /\ (Walked /\ options.ignore = Absent /\ options.includeOnly = Absent)
         => \A k \in 1..Len(tree.files) :
               ~IsHidden(tree.files[k]) => tree.files[k] \in Discovered

\* What C15 states of one file: in includeOnly mode it matches a compiled
\* includeOnly filter; else it matches no compiled ignore filter.
Decision(relativePath) ==
    IF includeOnly.set
    THEN \E k \in 1..Len(includeOnly.filters) : Matches[includeOnly.filters[k], relativePath]
    ELSE \A k \in 1..Len(ignore) : ~Matches[ignore[k], relativePath]

\* C15: the records of contents are, in walk order, the files walked so far
\* that the filter decision includes: in includeOnly mode those matching one
\* of the compiled includeOnly filters, whatever the ignore filters say; else
\* those matching none of the compiled ignore filters.
C15_FilterDecision ==
    Len(loads) = 1 =>
      LET walked == SubSeq(tree.files, 1, loads[1].pos)
          kept == SelectSeq(walked, Decision)
      IN  /\ Len(contents) = Len(kept)
          /\ \A i \in 1..Len(kept) : contents[i].relative = kept[i]

\* The walk is over in includeOnly mode, and a file that an ignore filter
\* matches has its record: b.css, with includeOnly *.css and ignore *.css.
C15_Witness ==
    /\ Walked
    /\ includeOnly.set
    /\ \E i \in 1..Len(contents) :
          \E k \in 1..Len(ignore) : Matches[ignore[k], contents[i].relative]

\* C16: when options.includeOnly is a list that is empty, or empty once its
\* empty strings are dropped, contents has no record, whatever the files and
\* the ignore option.
C16_EmptyIncludeOnlyIncludesNothing ==
    (options.includeOnly # Absent /\ Truthy(options.includeOnly) = << >>)
      => contents = << >>

\* The whole tree has been walked with includeOnly a list of one empty string
\* and an ignore option given, and there is no record.
C16_Witness ==
    /\ Walked
    /\ options.includeOnly = << Blank >>
    /\ options.ignore # Absent
    /\ loads[1].pos = Len(tree.files)
    /\ Len(tree.files) > 2
    /\ contents = << >>

\* The characters a wildcard stands for, as C18 lists them: letters, digits,
\* spaces, dots, underscores and hyphens.
WildChars ==
    { c \in Chars : \/ Code[c] \in 48..57 \/ Code[c] \in 65..90 \/ Code[c] \in 97..122
                    \/ c \in { " ", ".", "_", "-" } }

\* The matcher C18 and C19 describe: literal characters equal up to case, *
\* a run of WildChars, ** a run of WildChars and separators; the whole path.
RECURSIVE Accepts(_, _)
Accepts(filter, path) ==
    IF filter = << >> THEN path = << >>
    ELSE IF Head(filter) = "*"
    THEN LET double == Len(filter) > 1 /\ filter[2] = "*"
             rest == IF double THEN Tail(Tail(filter)) ELSE Tail(filter)
             run == IF double THEN WildChars \cup { "/" } ELSE WildChars
         IN  \E k \in 0..Len(path) :
                /\ \A i \in 1..k : path[i] \in run
                /\ Accepts(rest, SubSeq(path, k + 1, Len(path)))
    ELSE /\ path # << >>
         /\ Canon(Head(path)) = Canon(Head(filter))
         /\ Accepts(Tail(filter), Tail(path))

\* C18: with includeOnly one filter string of literals and *, the files of a
\* walked tree that have a record are the files the matcher of the claim
\* accepts: *.css keeps m-b.css and not acss, a* does not keep a/b.
C18_AnchoredLiteralMatcher ==
    (/\ Walked
     /\ options.includeOnly \in { << StarCss >>, << Star >>, << AStar >>, << StarLess >> })
      => \A k \in 1..Len(tree.files) :
            tree.files[k] \in Discovered <=> Accepts(options.includeOnly[1], tree.files[k])

\* C19: * does not match across a separator and ** does: with includeOnly
\* *.less the file s/t.less has no record; with includeOnly **.less the files
\* t.less and s/t.less both have theirs.
C19_DoubleStarSpansSeparators ==
    (Walked /\ tree.files = TreeDeep) =>
        /\ options.includeOnly = << StarLess >>
              => /\ TreeDeep[9] \notin Discovered
                 /\ TreeDeep[8] \in Discovered
        /\ options.includeOnly = << DoubleStarLess >>
              => /\ TreeDeep[8] \in Discovered
                 /\ TreeDeep[9] \in Discovered

\* The list C17 states: that of the first source, in the order of the sources,
\* that is given and holds a string that is not empty; the empty list if none.
FirstNonEmpty(sources) ==
    LET full == { i \in 1..Len(sources) : sources[i] # Absent /\ Truthy(sources[i]) # << >> }
    IN  IF full = {} THEN << >>
        ELSE sources[CHOOSE i \in full : \A j \in full : i <= j]

\* C17: setIgnore compiles the list of the first non-empty source in the order
\* argument, options.ignore, manifest, .rhignore, .npmignore, .gitignore; an
\* empty list and an ignore file with no non-blank line are skipped.
C17_FirstNonEmptyIgnoreSource ==
    [][ \A arg \in IgnoreArgs :
          SetIgnore(arg)
            => ignore' = setIgnore(FirstNonEmpty(IgnoreSources(arg, options, tree))) ]_vars

\* The graph has exactly the rules given and each holds the map given.
GraphIs(graph, rules, mapOf(_)) ==
    /\ DOMAIN graph = rules
    /\ \A rule \in rules : graph[rule].kind = "object" /\ graph[rule].m = mapOf(rule)

\* C20: setDependencies normalizes each accepted shape as stated.  An array of
\* names gives required = each name at latest and optional empty; an object
\* with no rule among its keys (a flat one, the empty one, and no dependencies
\* given at all) gives required = exactly that map and optional empty; an
\* object whose keys are all rules keeps its rules and their maps, required
\* and optional being added empty when missing.  The call returns true.
C20_DependencyShapesNormalized ==
    [][ \A arg \in DepArgs :
          LET given == DependenciesGiven(arg, options, tree)
              keys == DOMAIN given.obj
          IN  (ret'.op = "setDependencies" /\ SetDependencies(arg)) =>
                /\ given.shape = "array" =>
                      /\ ret'.out = "true"
                      /\ GraphIs(dependencies', { Required, Optional },
                                 LAMBDA rule :
                                   IF rule = Required
                                   THEN [ dep \in { given.list[i] : i \in 1..Len(given.list) } |-> "latest" ]
                                   ELSE EmptyMap)
                /\ (given.shape = "object" /\ \A key \in keys : ~IsDependencyRule(key)) =>
                      /\ ret'.out = "true"
                      /\ GraphIs(dependencies', { Required, Optional },
                                 LAMBDA rule :
                                   IF rule = Required
                                   THEN [ dep \in keys |-> given.obj[dep].s ]
                                   ELSE EmptyMap)
                /\ (given.shape = "object" /\ keys # { } /\ \A key \in keys : IsDependencyRule(key)) =>
                      /\ ret'.out = "true"
                      /\ GraphIs(dependencies', keys \cup { Required, Optional },
                                 LAMBDA rule :
                                   IF rule \in keys THEN given.obj[rule].m ELSE EmptyMap) ]_vars

\* setDependencies has normalized the array left-pad, lodash.
C20_Witness ==
    /\ ret.op = "setDependencies"
    /\ ret.out = "true"
    /\ DOMAIN dependencies = { Required, Optional }
    /\ dependencies[Required].m = [ dep \in { LeftPad, Lodash } |-> "latest" ]
    /\ dependencies[Optional].m = EmptyMap

\* The grammar C21 states for a rule: required, optional, or
\* environment-required- or environment-optional- followed by a name that is
\* not empty.
InRuleGrammar(key) ==
    \/ key = Required
    \/ key = Optional
    \/ \E prefix \in { EnvRequiredEmpty,
                       << "e", "n", "v", "i", "r", "o", "n", "m", "e", "n", "t", "-", "o", "p", "t", "i", "o", "n", "a", "l", "-" >> } :
          StartsWith(key, prefix) /\ Len(key) > Len(prefix)

\* C21: setDependencies throws a validation error for an object keyed by rules
\* one of whose keys is outside the grammar required | optional |
\* environment-(required|optional)-<non-empty name>, a key with an empty
\* environment name (environment-required-) included, and every graph it
\* accepts has only top-level keys of this grammar.
C21_RuleKeysFollowGrammar ==
    [][ \A arg \in DepArgs :
          LET given == DependenciesGiven(arg, options, tree)
              keys == DOMAIN given.obj
          IN  SetDependencies(arg) =>
                /\ ( /\ given.shape = "object"
                     /\ \E key \in keys : InRuleGrammar(key)
                     /\ \E key \in keys : ~InRuleGrammar(key) ) => ret'.out = "TypeError"
                /\ (given.shape = "object" /\ EnvRequiredEmpty \in keys) => ret'.out = "TypeError"
                /\ ret'.out = "true" => \A rule \in DOMAIN dependencies' : InRuleGrammar(rule) ]_vars

\* C22: addDependency(name, version, optional) sets exactly name -> version in
\* required (optional falsy) or optional (optional truthy) and leaves every
\* other entry, the other sub-map and every environment rule as they were;
\* removeDependency(name, optional) removes exactly that entry; neither
\* holds a name against the grammar of the rules (left-pad and lodash are no
\* rules, and are taken); and removing a name that addDependency has just
\* added, and that was absent before, gives the graph back.
C22_AddRemoveOneEntry ==
    [][ \A packageName \in DepNames, optional \in BOOLEAN :
          LET rule == IF optional THEN Optional ELSE Required
              before == dependencies[rule].m
              after == dependencies'[rule].m
              RestSame == /\ DOMAIN dependencies' = DOMAIN dependencies
                          /\ \A r \in DOMAIN dependencies \ { rule } : dependencies'[r] = dependencies[r]
          IN  /\ AddDependency(packageName, DepVersion, optional) =>
                    /\ ret'.out = "undefined"
                    /\ DOMAIN after = DOMAIN before \cup { packageName }
                    /\ after[packageName] = DepVersion
                    /\ \A dep \in DOMAIN before \ { packageName } : after[dep] = before[dep]
                    /\ RestSame
                    /\ packageName \notin DOMAIN before
                          => removeDependency(dependencies', packageName, optional) = dependencies
              /\ RemoveDependency(packageName, optional) =>
                    /\ ret'.out = "undefined"
                    /\ DOMAIN after = DOMAIN before \ { packageName }
                    /\ \A dep \in DOMAIN after : after[dep] = before[dep]
                    /\ RestSame ]_vars

\* addDependency has added lodash to the optional sub-map of a graph that
\* holds an environment rule and other entries.
C22_Witness ==
    /\ ret.op = "addDependency"
    /\ ret.arg
    /\ EnvRequiredDev \in DOMAIN dependencies
    /\ dependencies[Optional].m = [ dep \in { LeftPad, Lodash } |-> "1.0" ]
    /\ dependencies[Required].m = MapTwo

\* C23: hasAdapter(x) returns true exactly when an adapter of x's name is
\* registered, that is when the last bindAdapter or unbindAdapter of that name
\* was a bindAdapter: true right after bindAdapter(x), false right after
\* unbindAdapter(x).
C23_HasAdapterTellsRegistered ==
    [][ \A adapter \in AdapterArgs :
          (HasAdapter(adapter) /\ ~resolveAdapterThrows(adapter))
            => (ret'.out = "true" <=> adapter \in adapters) ]_vars

\* C24: addPipelining(filter, adapters) with a filter that compiles and
\* adapters that resolve returns true and appends one rule, the compiled
\* filter with the adapters in the order given, after the rules there were;
\* every adapter of the rule is then registered and those registered before
\* still are.
C24_AddPipeliningAppendsRule ==
    [][ \A filter \in RuleFilters, chain \in PipeliningArgs :
          ( /\ AddPipelining(filter, chain)
            /\ RegExpValid(pathToRegExpFilter(filter))
            /\ \A i \in 1..Len(chain) : ~resolveAdapterThrows(chain[i]) )
            => /\ ret'.out = "true"
               /\ pipelining' = Append(pipelining,
                                       [filter |-> pathToRegExpFilter(filter), adapters |-> chain])
               /\ adapters' = adapters \cup { chain[i] : i \in 1..Len(chain) } ]_vars

\* C25: bindAdapter, unbindAdapter and hasAdapter called with a value that
\* resolves to no object with a name (an object without a name, null, a
\* number) throw the invalid adapter error and leave the registry as it was.
C25_InvalidAdapterRejected ==
    [][ \A adapter \in { Nameless, Null, Number } :
          (BindAdapter(adapter) \/ UnbindAdapter(adapter) \/ HasAdapter(adapter))
            => /\ ret'.out = InvalidAdapter
               /\ adapters' = adapters ]_vars

\* C26: no state is shared across packages.  addDependency, removeDependency,
\* bindAdapter, unbindAdapter and addPipelining on one package change neither
\* what a second package of the same path holds (its dependency graph, its
\* adapter registry, its rule list, its contents) nor the manifest and the
\* options the packages were constructed from.
C26_NoStateShared ==
    [][ ( \/ \E packageName \in { LeftPad, Lodash }, optional \in BOOLEAN :
               \/ AddDependency(packageName, DepVersion, optional)
               \/ RemoveDependency(packageName, optional)
          \/ BindAdapter("css")
          \/ UnbindAdapter("css")
          \/ AddPipelining(FilterCss, << >>) )
          => /\ peer' = peer
             /\ tree'.npmPackage = tree.npmPackage
             /\ options' = options ]_vars

\* C27: for name, version, description, dependencies, adapters, pipelining,
\* ignore and includeOnly, a package constructed with the option of the field
\* supplied holds the value derived from the option, and one constructed
\* without it holds the value derived from the manifest, when the manifest
\* declares one.  (The description is the exception the setter makes in
\* production, where none is kept.)
C27_OptionsBeforeManifest ==
    (ret.op = "new" /\ ret.out = "package") =>
      LET m == tree.npmPackage
          From(option, manifest, supplied(_), value, derive(_)) ==
              /\ supplied(option) => value = derive(option)
              /\ (~supplied(option) /\ supplied(manifest)) => value = derive(manifest)
      IN  /\ From(options.name, m.name, LAMBDA v : v # "", name, LAMBDA v : v)
          /\ From(options.version, m.version, LAMBDA v : v # "", version, LAMBDA v : v)
          /\ environment # "production" =>
                From(options.description, m.description, LAMBDA v : v # "", description, LAMBDA v : v)
          /\ From(options.dependencies, m.dependencies, LAMBDA v : v.shape # "absent",
                  dependencies, LAMBDA v : setDependencies(v).graph)
          /\ From(options.adapters, m.adapters, LAMBDA v : v # AbsentAdapters,
                  adapters, LAMBDA v : { v[i] : i \in 1..Len(v) })
          /\ From(options.pipelining, m.pipelining, LAMBDA v : v # AbsentTable,
                  pipelining, LAMBDA v : MapRules(v))
          /\ From(options.ignore, m.ignore, LAMBDA v : v # Absent, ignore, LAMBDA v : setIgnore(v))
          /\ From(options.includeOnly, m.includeOnly, LAMBDA v : v # Absent,
                  includeOnly, LAMBDA v : setIncludeOnly(v))

\* A package constructed with every option supplied over a manifest that
\* declares every field differently.
C27_Witness ==
    /\ ret.op = "new"
    /\ ret.out = "package"
    /\ tree.npmPackage = FullManifest
    /\ options.pipelining = OneRule(FilterCss)
    /\ name = "opt" /\ version = "9.9.9" /\ description = "from options"
    /\ adapters = { "css" }
    /\ Lodash \in DOMAIN dependencies[Required].m

\* C28: in every state of a package, whatever setEnvironment and
\* setDescription calls were made, a package whose environment is production
\* carries no description; and a package constructed with no environment
\* given by the options or the manifest is in development.
C28_NoDescriptionInProduction ==
    Returned =>
      /\ environment = "production" => description = ""
      /\ ( /\ ret.op = "new"
           /\ options.environment = OptionDefaults.environment
           /\ tree.npmPackage.environment = "" ) => environment = "development"

\* C29: the constructor throws when the name, or the version, is given
\* neither by the options nor by a manifest found (the error of setName or
\* setVersion, or that of the path when neither package.json nor Rhfile is
\* found), and a package it has returned has a name and a version that are
\* not empty, whatever setName and setVersion calls were made, those without
\* an argument or with an empty one included.
C29_NameAndVersionNeverEmpty ==
    /\ ( /\ ret.op = "new"
         /\ \/ options.name = "" /\ tree.npmPackage.name = ""
            \/ options.version = "" /\ tree.npmPackage.version = "" )
         => /\ ret.out \in { NameError, VersionError, PathError }
            /\ (tree.npmPackage.found \/ tree.configFile.found) => ret.out # PathError
    /\ Returned => (name # "" /\ version # "")

\* setName without a name has been called on a package that had been given
\* another name: the name is the manifest's again.
C29_Witness ==
    /\ ret.op = "setName"
    /\ ret.out = "undefined"
    /\ options.name = ""
    /\ name = "tree"
    /\ version = "2.0.0"

\* C30: the bootstrap of the constructor runs load, then build, then store,
\* each after the one before it has completed.  With loadOnInitialize false
\* nothing runs; build is called only when the load has been fulfilled and
\* buildOnInitialize is true; store is called only when buildOnInitialize and
\* storeOnInitialize are true and the build it follows has been fulfilled.
C30_BootstrapInOrder ==
    /\ ~options.loadOnInitialize => (loads = << >> /\ builds = << >> /\ ret.op = "new")
    /\ builds # << >> =>
          /\ options.buildOnInitialize
          /\ loads # << >> /\ loads[1].state = "fulfilled"
    /\ ret.op = "store" =>
          /\ options.buildOnInitialize /\ options.storeOnInitialize
          /\ bootstrap = "done"
          /\ _build # 0 /\ builds[_build].state = "fulfilled"

RECURSIVE ExpandedOnce(_)
ExpandedOnce(str) ==
    IF str = << >> THEN << >>
    ELSE IF Len(str) > 1 /\ SubSeq(str, 1, 2) = << "*", "*" >>
    THEN DoubleStarText \o ExpandedOnce(SubSeq(str, 3, Len(str)))
    ELSE IF Head(str) = "*"
    THEN StarText \o ExpandedOnce(Tail(str))
    ELSE << Head(str) >> \o ExpandedOnce(Tail(str))

\* C32: pathToRegExpFilter expands every wildcard of the filter once, ** before
\* * and the text of ** not expanded again, none left as a raw quantifier: the
\* filters compiled from the includeOnly option are ^, the text of
\* ExpandedOnce for the option's string, $.
C32_EveryWildcardExpandedOnce ==
    (includeOnly.set /\ options.includeOnly # Absent) =>
        LET strs == Truthy(options.includeOnly)
        IN  /\ Len(includeOnly.filters) = Len(strs)
            /\ \A i \in 1..Len(strs) :
                  includeOnly.filters[i] = << "^" >> \o ExpandedOnce(strs[i]) \o << "$" >>

\* C33: after the calls of load(), forced or not, once every walk has ended,
\* contents holds one record for each file of the tree that the filters
\* include and none for the others: a forced load leaves no two records of
\* one relative path.
C33_OneRecordPerIncludedFile ==
    (Len(loads) >= 1 /\ \A w \in 1..Len(loads) : loads[w].state = "fulfilled") =>
        \A k \in 1..Len(tree.files) :
            Cardinality({ i \in 1..Len(contents) : contents[i].relative = tree.files[k] })
              = IF Included(tree.files[k]) THEN 1 ELSE 0

\* C34: a setDependencies that fails, on an object with a key that is no rule
\* or on an array with an entry that is no string, leaves this.dependencies
\* the graph it was and leaves the object the caller gave as it was given.
C34_FailedSetLeavesGraphAndInput ==
    [][ /\ \A arg \in { Mixed, NumberInArray } :
              (argument' = arg /\ SetDependencies(arg)) => ret'.out = "TypeError"
        /\ \A arg \in SetArgs :
              (ret'.out = "TypeError" /\ SetDependencies(arg))
                => /\ dependencies' = dependencies
                   /\ argument' = arg ]_vars

\* setDependencies has thrown on the array whose second entry is a number,
\* called on a package whose graph held a required dependency.
C34_Witness ==
    /\ ret.op = "setDependencies"
    /\ ret.out = "TypeError"
    /\ argument = NumberInArray
    /\ dependencies[Required].m = MapOne

\* What C35 states of one add on a map: it fails iff the file has an entry,
\* a failed call leaves the map, and a call that succeeds adds that entry.
AddsEntry(failed, before, after, file, content) ==
    /\ failed <=> file \in DOMAIN before
    /\ failed => after = before
    /\ ~failed => /\ file \notin DOMAIN before
                  /\ after = Put(before, file, content)

\* What C35 states of one remove: it fails iff the file has no entry, a
\* failed call leaves the map, and a call that succeeds removes that entry.
RemovesEntry(failed, before, after, file) ==
    /\ failed <=> file \notin DOMAIN before
    /\ failed => after = before
    /\ ~failed => /\ file \in DOMAIN before
                  /\ after = Delete(before, file)

\* C35: addInput and addOutput fail iff the file has an entry, whatever its
\* content, the empty content included, and else add that entry;
\* removeInput and removeOutput fail iff the file has no entry and else
\* remove it; a failed call leaves the map.
C35_FailIffEntryPresent ==
    [][ /\ \A file \in Files, content \in Contents :
              /\ AddInput(file, content)
                    => AddsEntry(ret'.out # "true", input, input', file, content)
              /\ AddOutput(file, content)
                    => AddsEntry(ret'.out # "true", output, output', file, content)
        /\ \A file \in Files :
              /\ RemoveInput(file)
                    => RemovesEntry(ret'.out # "true", input, input', file)
              /\ RemoveOutput(file)
                    => RemovesEntry(ret'.out # "true", output, output', file) ]_vars

====
